---- MODULE Spec2Model ----
(***************************************************************************)
(* A model of the attendance-log scoring pipeline of pyapp/core:           *)
(*   - runs.py      the append-only run store with time-window supersession*)
(*   - sanitise.py  sanitize_line and validate_lines                       *)
(*   - points.py    PointsStore.get_points                                 *)
(*   - workflow.py  calculate_points (name resolution and the ledger)      *)
(* Each subsystem has its own specification over the shared variables.     *)
(***************************************************************************)
EXTENDS Integers, Sequences, FiniteSets, TLC

VARIABLES
    file,          \* runs/events.json on disk: absent, or the JSON document
    clock,         \* number of save_run calls made so far (source of run ids)
    san_line,      \* sanitize_line: the raw line read from the timers file
    san_aliases,   \* sanitize_line: the pairs of boss_aliases.json
    sanitized,     \* sanitize_line: the successive results of sanitizing the line
    \* calculate_points (workflow.py:86-408); a local whose name is also the
    \* name of a parameter elsewhere in this module carries the prefix cp_
    raw_lines,     \* the lines of the timers file
    window,        \* the arguments use_all_entries, start_date, end_date
    pc,            \* where the call stands: "preprocess", "validate", "gate", "line", "scan", "score", "count", "done"
    cp_lines,      \* lines: the (index, text) pairs after preprocessing and slicing
    formatted_lines,
    cp_errors,     \* errors
    line_pos,      \* position of the for loop in formatted_lines
    name_tokens,
    cp_i,          \* i, the cursor of the while loop (0-based as in the source)
    last_appended_token,
    actual_names,
    cp_aliases,    \* aliases
    vocab,         \* autocorrecter.vocab
    discard,
    name_aliases_file,   \* name_aliases.json on disk
    dkp_count,
    boss_counts,
    boss_set,
    cp_events,     \* events
    event_entries,
    entry_pos,     \* position of the loop over event_entries
    calls,         \* the invocations of resolve_unknown so far, with the answers
    result,        \* the CalculationResult returned
    \* a PointsStore (points.py:20-27) and the get_points calls made on it
    ps_points_map, \* self.points_map, the items of points.json in file order
    ps_calls,      \* the calls so far: the argument boss and the value returned
    \* one call of slice_by_date (sanitise.py:164-198)
    sl_lines,      \* the argument lines
    sl_window,     \* the arguments start and end
    sl_zone,       \* the offset of the local zone the system reports
    sl_sliced      \* the list returned, Some(list) once the call has returned

varsRuns == <<file, clock>>
varsSan == <<san_line, san_aliases, sanitized>>
varsScore == <<raw_lines, window, pc, cp_lines, formatted_lines, cp_errors, line_pos,
               name_tokens, cp_i, last_appended_token, actual_names, cp_aliases, vocab,
               discard, name_aliases_file, dkp_count, boss_counts, boss_set, cp_events,
               event_entries, entry_pos, calls, result>>
varsPoints == <<ps_points_map, ps_calls>>
varsSlice == <<sl_lines, sl_window, sl_zone, sl_sliced>>
vars == <<ps_points_map, ps_calls, sl_lines, sl_window, sl_zone, sl_sliced,
          file, clock, san_line, san_aliases, sanitized,
          raw_lines, window, pc, cp_lines, formatted_lines, cp_errors, line_pos,
          name_tokens, cp_i, last_appended_token, actual_names, cp_aliases, vocab,
          discard, name_aliases_file, dkp_count, boss_counts, boss_set, cp_events,
          event_entries, entry_pos, calls, result>>

(***************************************************************************)
(* Generic helpers                                                         *)
(***************************************************************************)
NoneVal == "None"

Last(s) == s[Len(s)]

RECURSIVE SeqsUpTo(_, _)
SeqsUpTo(S, n) ==
    IF n = 0 THEN {<<>>}
    ELSE LET shorter == SeqsUpTo(S, n - 1)
         IN  shorter \cup {Append(s, x) : s \in {t \in shorter : Len(t) = n - 1}, x \in S}

(***************************************************************************)
(* Text helpers: the Python str methods and regular expressions used       *)
(***************************************************************************)
LowerLetters == {"a", "b", "c", "d", "e", "f", "g", "h", "i", "j", "k", "l", "m",
                 "n", "o", "p", "q", "r", "s", "t", "u", "v", "w", "x", "y", "z"}
UpperLetters == {"A", "B"}
Digits == {"0", "1", "2", "3", "4", "5", "6", "7", "8", "9"}
Punctuation == {" ", "\t", ":", "/", "(", ")", ".", "_"}
\* every character outside this set stands for a non-ASCII character
AsciiChars == LowerLetters \cup UpperLetters \cup Digits \cup Punctuation

isascii(c) == c \in AsciiChars
isspace(c) == c \in {" ", "\t"}
isword(c) == c \in LowerLetters \cup UpperLetters \cup Digits \cup {"_"}
isdigit(c) == c \in Digits

\* the slice s[a-1:b] of Python, clamped to the string
substr(s, a, b) ==
    LET lo == IF a < 1 THEN 1 ELSE a
        hi == IF b > Len(s) THEN Len(s) ELSE b
    IN  IF lo > hi THEN "" ELSE SubSeq(s, lo, hi)
Ch(s, i) == IF i >= 1 /\ i <= Len(s) THEN SubSeq(s, i, i) ELSE ""
From(s, i) == substr(s, i, Len(s))
startswith_at(s, i, lit) == substr(s, i, i + Len(lit) - 1) = lit
endswith(s, lit) == Len(s) >= Len(lit) /\ From(s, Len(s) - Len(lit) + 1) = lit
contains(s, c) == \E i \in 1..Len(s) : startswith_at(s, i, c)
find(s, c) == CHOOSE i \in 1..Len(s) :
                 startswith_at(s, i, c) /\ \A j \in 1..(i - 1) : ~startswith_at(s, j, c)
rfind(s, c) == CHOOSE i \in 1..Len(s) :
                  startswith_at(s, i, c) /\ \A j \in (i + 1)..Len(s) : ~startswith_at(s, j, c)

lower_char(c) == CASE c = "A" -> "a" [] c = "B" -> "b" [] OTHER -> c

RECURSIVE lower(_)
lower(s) == IF s = "" THEN "" ELSE lower_char(Head(s)) \o lower(Tail(s))

RECURSIVE ascii_only(_)
ascii_only(s) ==
    IF s = "" THEN ""
    ELSE (IF isascii(Head(s)) THEN Head(s) ELSE "") \o ascii_only(Tail(s))

RECURSIVE lstrip(_)
lstrip(s) == IF s # "" /\ isspace(Head(s)) THEN lstrip(Tail(s)) ELSE s

RECURSIVE rstrip(_)
rstrip(s) == IF s # "" /\ isspace(Ch(s, Len(s))) THEN rstrip(substr(s, 1, Len(s) - 1)) ELSE s

strip(s) == rstrip(lstrip(s))

\* str.split() with no separator: the maximal runs of non-whitespace
RECURSIVE split_from(_, _, _)
split_from(s, i, cur) ==
    IF i > Len(s) THEN (IF cur = "" THEN <<>> ELSE <<cur>>)
    ELSE IF isspace(Ch(s, i))
         THEN (IF cur = "" THEN <<>> ELSE <<cur>>) \o split_from(s, i + 1, "")
         ELSE split_from(s, i + 1, cur \o Ch(s, i))

split(s) == split_from(s, 1, "")

RECURSIVE join(_, _)
join(sep, parts) ==
    IF parts = <<>> THEN ""
    ELSE IF Len(parts) = 1 THEN parts[1]
    ELSE parts[1] \o sep \o join(sep, Tail(parts))

\* number of whitespace / digit characters from position i on
RECURSIVE spaces_at(_, _)
spaces_at(s, i) == IF isspace(Ch(s, i)) THEN 1 + spaces_at(s, i + 1) ELSE 0

RECURSIVE digits_at(_, _)
digits_at(s, i) == IF isdigit(Ch(s, i)) THEN 1 + digits_at(s, i + 1) ELSE 0

\* \b between positions i-1 and i
boundary_at(s, i) == isword(Ch(s, i - 1)) # isword(Ch(s, i))

\* re.sub: leftmost non-overlapping matches, MatchLen(s, i) the length of the
\* match starting at i (0: none), Repl(s, i, n) its replacement
RECURSIVE re_sub(_, _, _, _)
re_sub(MatchLen(_, _), Repl(_, _, _), s, i) ==
    IF i > Len(s) THEN ""
    ELSE LET n == MatchLen(s, i)
         IN  IF n > 0
             THEN Repl(s, i, n) \o re_sub(MatchLen, Repl, s, i + n)
             ELSE Ch(s, i) \o re_sub(MatchLen, Repl, s, i + 1)

(***************************************************************************)
(* runs.py                                                                 *)
(***************************************************************************)
MaxRuns == 3          \* save_run calls explored
MaxNewEvents == 1     \* events passed to one save_run call

\* datetime values: an instant with or without tzinfo; the local zone's offset
\* from UTC is read from the system at each conversion
WallTimes == {0, 1}
LocalOffsets == {0, 1}
UtcTimes == {t - off : t \in WallTimes, off \in LocalOffsets} \cup WallTimes
Datetimes == [t : WallTimes, aware : BOOLEAN]

\* the text datetime.isoformat() gives for a UTC instant, "+00:00" replaced by "Z"
IsoText(n) == ToString(n) \o "Z"

\* runs.py:15-22, off the offset _local_tzinfo() reports
_isoformat_utc(dt, off) ==
    LET utc == IF dt.aware THEN dt.t ELSE dt.t - off
    IN  IsoText(utc)

\* runs.py:25-28 : the aware instant the text denotes
_parse_iso(value) == CHOOSE n \in UtcTimes : IsoText(n) = value

\* runs.py:31-38
EmptyStore == [version |-> 1, runs |-> <<>>, events |-> <<>>]

load_run_store(f) ==
    CASE f.kind = "absent"  -> EmptyStore
      [] f.kind = "json"    -> f.doc
      [] OTHER              -> EmptyStore     \* JSONDecodeError

\* runs.py:41-44
save_run_store(data) == [kind |-> "json", doc |-> data]

\* runs.py:77-94
build_run_meta(run_id, created_utc, start_utc, end_utc, event_count, off) ==
    [run_id |-> run_id,
     created_utc |-> _isoformat_utc(created_utc, off),
     start_utc |-> _isoformat_utc(start_utc, off),
     end_utc |-> _isoformat_utc(end_utc, off),
     event_count |-> event_count]

\* runs.py:97-116
normalize_event_replaced(run_id, created_utc, event_time, boss, points, off) ==
    [run_id |-> run_id,
     created_utc |-> _isoformat_utc(created_utc, off),
     event_time_utc |-> _isoformat_utc(event_time, off),
     boss |-> boss,
     points |-> points,
     active |-> TRUE,
     replaced_by |-> run_id]
normalize_event(run_id, created_utc, event_time, boss, points, off) ==
    [run_id |-> run_id,
     created_utc |-> _isoformat_utc(created_utc, off),
     event_time_utc |-> _isoformat_utc(event_time, off),
     boss |-> boss,
     points |-> points,
     active |-> TRUE,
     replaced_by |-> NoneVal]

\* runs.py:68
InWindowExclusive(start, event_time, end) == start < event_time /\ event_time < end
InWindow(start, event_time, end) == start <= event_time /\ event_time <= end

\* runs.py:61-70, one iteration of the loop over data["events"]
SupersedeAlways(event, start, end, run_id) ==
    IF event.event_time_utc = ""
    THEN event
    ELSE IF InWindow(start, _parse_iso(event.event_time_utc), end)
         THEN [event EXCEPT !.active = FALSE, !.replaced_by = run_id]
         ELSE event
SupersedeAfterStart(event, start, end, run_id) ==
    IF ~event.active
    THEN event
    ELSE IF event.event_time_utc = ""
    THEN event
    ELSE IF start < _parse_iso(event.event_time_utc)
            /\ _parse_iso(event.event_time_utc) <= end
         THEN [event EXCEPT !.active = FALSE, !.replaced_by = run_id]
         ELSE event
Supersede(event, start, end, run_id) ==
    IF ~event.active
    THEN event
    ELSE IF event.event_time_utc = ""
    THEN event
    ELSE IF InWindow(start, _parse_iso(event.event_time_utc), end)
         THEN [event EXCEPT !.active = FALSE, !.replaced_by = run_id]
         ELSE event

\* runs.py:73
ExtendReplacing(stored, events) == events
Extend(stored, events) == stored \o events

\* runs.py:47-74
save_run_data_marking_all(f, run_meta, events) ==
    LET data   == load_run_store(f)
        start  == _parse_iso(run_meta.start_utc)
        end    == _parse_iso(run_meta.end_utc)
        run_id == run_meta.run_id
        all    == Extend(data.events, events)
    IN  [version |-> data.version,
         runs    |-> Append(data.runs, run_meta),
         events  |-> [i \in 1..Len(all) |-> Supersede(all[i], start, end, run_id)]]
save_run_data(f, run_meta, events) ==
    LET data   == load_run_store(f)
        start  == _parse_iso(run_meta.start_utc)
        end    == _parse_iso(run_meta.end_utc)
        run_id == run_meta.run_id
        marked == [i \in 1..Len(data.events) |->
                      Supersede(data.events[i], start, end, run_id)]
    IN  [version |-> data.version,
         runs    |-> Append(data.runs, run_meta),
         events  |-> Extend(marked, events)]

\* the payload of one ledger event handed to normalize_event
EventInputs == [event_time : {dt \in Datetimes : ~dt.aware}, boss : {"boss1"}]

\* wizard.py:1062-1083 : the window is a pair of UTC datetimes, end not before start
Windows == {w \in [start : {dt \in Datetimes : dt.aware}, end : {dt \in Datetimes : dt.aware}] :
               ~(w.end.t < w.start.t)}

RunIdOf(n) == "run" \o ToString(n)

\* wizard.py:2698-2729 building the arguments, then runs.py:47-74
SaveRun ==
    /\ clock < MaxRuns
    /\ \E w \in Windows, inputs \in SeqsUpTo(EventInputs, MaxNewEvents), off \in LocalOffsets :
          LET run_id   == RunIdOf(clock + 1)
              created  == [t |-> 1, aware |-> TRUE]
              run_meta == build_run_meta(run_id, created, w.start, w.end, Len(inputs), off)
              events   == [i \in 1..Len(inputs) |->
                              normalize_event(run_id, created, inputs[i].event_time,
                                              inputs[i].boss,
                                              IF inputs[i].boss = "boss1" THEN 10 ELSE 5, off)]
          IN  file' = save_run_store(save_run_data(file, run_meta, events))
    /\ clock' = clock + 1

InitRuns ==
    /\ file = [kind |-> "absent"]
    /\ clock = 0

(***************************************************************************)
(* sanitise.py : sanitize_line                                             *)
(***************************************************************************)
\* sanitise.py:77  \(double\s+points?\)  ->  (doublepoints)
double_points_len(s, i) ==
    IF ~startswith_at(s, i, "(double") THEN 0
    ELSE LET k == spaces_at(s, i + 7)
             j == i + 7 + k
         IN  IF k = 0 \/ ~startswith_at(s, j, "point") THEN 0
             ELSE IF startswith_at(s, j + 5, "s)") THEN 7 + k + 7
             ELSE IF startswith_at(s, j + 5, ")") THEN 7 + k + 6
             ELSE 0
double_points_repl(s, i, n) == "(doublepoints)"

\* sanitise.py:78  (^|\s)/\s+  ->  \1/
slash_space_len(s, i) ==
    IF i = 1 /\ Ch(s, 1) = "/" /\ spaces_at(s, 2) > 0 THEN 1 + spaces_at(s, 2)
    ELSE IF isspace(Ch(s, i)) /\ Ch(s, i + 1) = "/" /\ spaces_at(s, i + 2) > 0
         THEN 2 + spaces_at(s, i + 2)
         ELSE 0
slash_space_repl(s, i, n) == IF Ch(s, i) = "/" THEN "/" ELSE Ch(s, i) \o "/"

\* sanitise.py:79  \brootx(\d+)\b  ->  root\1
rootx_len(s, i) ==
    IF ~(startswith_at(s, i, "rootx") /\ boundary_at(s, i)) THEN 0
    ELSE LET d == digits_at(s, i + 5)
         IN  IF d > 0 /\ boundary_at(s, i + 5 + d) THEN 5 + d ELSE 0
rootx_repl(s, i, n) == "root" \o substr(s, i + 5, i + n - 1)

\* sanitise.py:80-84  <literal>\b  ->  <replacement>
literal_b_len(lit, s, i) ==
    IF startswith_at(s, i, lit) /\ boundary_at(s, i + Len(lit)) THEN Len(lit) ELSE 0
faction_len(s, i) == literal_b_len("/faction", s, i)
faction_repl(s, i, n) == "/factions"
nerco_len(s, i) == literal_b_len("/nerco", s, i)
nerco_repl(s, i, n) == "/necro"
hrugn_len(s, i) == literal_b_len("/hrugn", s, i)
hrugn_repl(s, i, n) == "/hrung"
mordis_len(s, i) == literal_b_len("/mordis", s, i)
mords_len(s, i) == literal_b_len("/mords", s, i)
mord_repl(s, i, n) == "/mord"

\* sanitise.py:85  \baggy/\s*  ->  "/aggy "
aggy_len(s, i) ==
    IF startswith_at(s, i, "aggy/") /\ boundary_at(s, i) THEN 5 + spaces_at(s, i + 5) ELSE 0
aggy_repl(s, i, n) == "/aggy "

\* sanitise.py:77-85
typo_rewrites(joined) ==
    LET u1 == re_sub(double_points_len, double_points_repl, joined, 1)
        u2 == re_sub(slash_space_len, slash_space_repl, u1, 1)
        u3 == re_sub(rootx_len, rootx_repl, u2, 1)
        u4 == re_sub(faction_len, faction_repl, u3, 1)
        u5 == re_sub(nerco_len, nerco_repl, u4, 1)
        u6 == re_sub(hrugn_len, hrugn_repl, u5, 1)
        u7 == re_sub(mordis_len, mord_repl, u6, 1)
        u8 == re_sub(mords_len, mord_repl, u7, 1)
    IN  re_sub(aggy_len, aggy_repl, u8, 1)

\* sanitise.py:87 and 99 : the dict built from the pairs (a later pair wins), then .get(boss, boss)
alias_get(aliases, boss) ==
    LET hits == {i \in 1..Len(aliases) : lower(aliases[i][1]) = boss}
    IN  IF hits = {} THEN boss
        ELSE lower(aliases[CHOOSE i \in hits : \A j \in hits : j <= i][2])

\* sanitise.py:94-100 (and 106-112) : the boss token with its alias substituted
alias_boss_token(aliases, token) ==
    IF endswith(token, ")") /\ contains(token, "(")
    THEN LET k == find(token, "(")
         IN  alias_get(aliases, substr(token, 1, k - 1)) \o From(token, k)
    ELSE alias_get(aliases, token)

\* sanitise.py:67-70
clean_tokens(raw_line) ==
    LET raw_tokens == split(strip(raw_line))
    IN  [k \in 1..Len(raw_tokens) |-> lower(ascii_only(raw_tokens[k]))]

\* sanitise.py:94-101 (and 106-113) : the parts joined again, the first one
\* with its alias substituted
alias_first_part(aliases, parts) ==
    join(" ", [parts EXCEPT ![1] = alias_boss_token(aliases, parts[1])])

\* sanitise.py:90-102 : the line rebuilt from the text before the last ":"
\* and the stripped text after it
alias_entry(aliases, updated, prefix, entry) ==
    IF entry = "" \/ split(entry) = <<>> THEN updated
    ELSE prefix \o ":" \o alias_first_part(aliases, split(entry))

\* sanitise.py:88-113
alias_line(aliases, updated) ==
    IF contains(updated, ":")
    THEN alias_entry(aliases, updated,
                     substr(updated, 1, rfind(updated, ":") - 1),
                     strip(From(updated, rfind(updated, ":") + 1)))
    ELSE IF split(updated) = <<>> THEN updated
    ELSE alias_first_part(aliases, split(updated))

\* sanitise.py:71-115 : the line from the joined tokens on
sanitize_joined(joined, aliases) ==
    IF joined = "" THEN "" ELSE alias_line(aliases, typo_rewrites(joined))

\* sanitise.py:57-115
sanitize_line(raw_line, aliases) ==
    sanitize_joined(join(" ", clean_tokens(raw_line)), aliases)

MaxFrags == 3         \* fragments concatenated into one raw line
MaxPasses == 2        \* times the line is put through sanitize_line

\* pieces of raw timer lines: a non-ASCII character, separators, boss tokens
\* (aliased, capitalised, misspelt), a participant
Fragments == {"é", " ", ":", "b1", "B", "/faction", "aggy/", "x"}
RawLines == {join("", fs) : fs \in SeqsUpTo(Fragments, MaxFrags)}

\* contents of boss_aliases.json: none, one alias, two aliases
AliasLists == {<<>>,
               << <<"b1", "boss1">> >>,
               << <<"b1", "boss1">>, <<"B", "boss2">> >>}

InitSan ==
    /\ san_line \in RawLines
    /\ san_aliases \in AliasLists
    /\ sanitized = <<>>

\* sanitise.py:126 : sanitize_line applied to the line as last written
Sanitize ==
    /\ Len(sanitized) < MaxPasses
    /\ sanitized' = Append(sanitized,
                           sanitize_line(IF sanitized = <<>> THEN san_line ELSE Last(sanitized),
                                         san_aliases))
    /\ UNCHANGED <<san_line, san_aliases>>

(***************************************************************************)
(* points.py : PointsStore                                                 *)
(***************************************************************************)
\* Optional[int]: None, or Some(n); Raised(e) when the call raises
None == [none |-> TRUE]
Some(n) == [some |-> n]
Raised(e) == [raised |-> e]
IsSome(r) == DOMAIN r = {"some"}

\* points.py:7
MODIFIERS == <<"brucybonus", "double", "doublepoints", "fail", "comp">>

\* points.json as loaded by _load (points.py:33-66): the items in file order,
\* a value being an int, a dict (ring base) or a list of tiers
IntValue(v) == [type |-> "int", v |-> v]
DictValue(m) == [type |-> "dict", map |-> m]
ListValue(tiers) == [type |-> "list", tiers |-> tiers]

has_key(points_map, key) == \E k \in 1..Len(points_map) : points_map[k].key = key
\* dict lookup: a later item of the same key replaces an earlier one
map_get(points_map, key) ==
    points_map[CHOOSE k \in 1..Len(points_map) :
                  /\ points_map[k].key = key
                  /\ \A j \in (k + 1)..Len(points_map) : points_map[j].key # key].value

RECURSIVE lstrip_slash(_)
lstrip_slash(s) == IF s # "" /\ Head(s) = "/" THEN lstrip_slash(Tail(s)) ELSE s

\* ^\d+\.\d+$
is_decimal(s) ==
    LET d == digits_at(s, 1)
        e == digits_at(s, d + 2)
    IN  d > 0 /\ Ch(s, d + 1) = "." /\ e > 0 /\ d + 1 + e = Len(s)

\* points.py:74-81 : the alternative a scalar key contributes to the grammar
ScalarAlternative(key) ==
    IF is_decimal(key) THEN [lit |-> key, optslash |-> TRUE]
    ELSE IF startswith_at(key, 1, "/") THEN [lit |-> lstrip_slash(key), optslash |-> TRUE]
    ELSE [lit |-> key, optslash |-> FALSE]

matches_scalar(alt, text) ==
    text = alt.lit \/ (alt.optslash /\ text = "/" \o alt.lit)

\* the text with one optional leading "/" removed
after_slash(text) == IF startswith_at(text, 1, "/") THEN From(text, 2) ELSE text

\* points.py:69 and 96 : /?rings([1-4])x([5-6])
matches_rings(text) ==
    LET r == after_slash(text)
    IN  /\ Len(r) = 8
        /\ startswith_at(r, 1, "rings")
        /\ Ch(r, 6) \in {"1", "2", "3", "4"}
        /\ Ch(r, 7) = "x"
        /\ Ch(r, 8) \in {"5", "6"}

\* points.py:70 and 97 : /?legacy(\d+)\.([5-6])
matches_legacy(text) ==
    LET r == after_slash(text)
        d == digits_at(r, 7)
    IN  /\ startswith_at(r, 1, "legacy")
        /\ d > 0
        /\ Ch(r, 7 + d) = "."
        /\ Ch(r, 8 + d) \in {"5", "6"}
        /\ Len(r) = 8 + d

\* points.py:71 and 98 : /?root\d*
matches_root(text) ==
    LET r == after_slash(text)
    IN  startswith_at(r, 1, "root") /\ 4 + digits_at(r, 5) = Len(r)

RECURSIVE to_int(_)
to_int(digits) ==
    IF digits = "" THEN 0
    ELSE 10 * to_int(substr(digits, 1, Len(digits) - 1))
         + (CHOOSE n \in 0..9 : ToString(n) = Ch(digits, Len(digits)))

\* the ways to read the token as <boss> or <boss>(<modifier>)
boss_candidates(token) ==
    {[boss |-> token, modifier |-> ""]} \cup
    {[boss |-> substr(token, 1, Len(token) - Len(MODIFIERS[m]) - 2), modifier |-> MODIFIERS[m]] :
        m \in {k \in 1..Len(MODIFIERS) : endswith(token, "(" \o MODIFIERS[k] \o ")")}}

\* points.py:68-90 and 100 : the match of the token against _bosses_re, the
\* alternatives tried in order (the scalar keys, rings, legacy, root);
\* None when there is none
alternative_matches(points_map, k, text) ==
    IF k <= Len(points_map)
    THEN /\ points_map[k].value.type = "int"
         /\ matches_scalar(ScalarAlternative(points_map[k].key), text)
    ELSE IF k = Len(points_map) + 1 THEN matches_rings(text)
    ELSE IF k = Len(points_map) + 2 THEN matches_legacy(text)
    ELSE matches_root(text)

first_of(alts) == CHOOSE k \in alts : \A j \in alts : k <= j

match_of(points_map, cands, alts) ==
    IF alts = {} THEN None
    ELSE CHOOSE c \in cands : alternative_matches(points_map, first_of(alts), c.boss)

match_among(points_map, cands) ==
    match_of(points_map, cands,
             {k \in 1..(Len(points_map) + 3) :
                 \E c \in cands : alternative_matches(points_map, k, c.boss)})

bosses_re_match(points_map, token) == match_among(points_map, boss_candidates(token))

\* points.py:137-140 and 147-150 : points_map.get("/" + family), then
\* points_map.get(family)
family_entry(points_map, family) ==
    IF has_key(points_map, "/" \o family) THEN map_get(points_map, "/" \o family)
    ELSE IF has_key(points_map, family) THEN map_get(points_map, family)
    ELSE None

\* points.py:135-142 : r the boss without its leading "/"
rings_points(ring_map, r) ==
    IF ring_map # None /\ ring_map.type = "dict"
    THEN (IF Ch(r, 8) \in DOMAIN ring_map.map
          THEN Some(ring_map.map[Ch(r, 8)] * to_int(Ch(r, 6)))
          ELSE Raised("KeyError"))
    ELSE Some(0)

\* points.py:151-155 : the first tier the level reaches
tier_points(tier_list, ok, star) ==
    IF ok = {} THEN Some(0)
    ELSE IF star = "5" THEN Some(tier_list[first_of(ok)].point_5)
    ELSE Some(tier_list[first_of(ok)].point_6)

\* points.py:145-155 : r the boss without its leading "/", d the number of
\* digits of its level
legacy_points(tiers, r, d, level) ==
    IF tiers # None /\ tiers.type = "list"
    THEN tier_points(tiers.tiers,
                     {k \in 1..Len(tiers.tiers) : level >= tiers.tiers[k].level},
                     Ch(r, 8 + d))
    ELSE Some(0)

legacy_digits(r) == digits_at(r, 7)

\* points.py:134-159 : the points of a boss that is no key of the table
family_points(points_map, stripped_boss) ==
    IF matches_rings(stripped_boss)
    THEN rings_points(family_entry(points_map, "rings"), after_slash(stripped_boss))
    ELSE IF matches_legacy(stripped_boss)
    THEN legacy_points(family_entry(points_map, "legacy"), after_slash(stripped_boss),
                       legacy_digits(after_slash(stripped_boss)),
                       to_int(substr(after_slash(stripped_boss), 7,
                                     6 + legacy_digits(after_slash(stripped_boss)))))
    ELSE IF matches_root(stripped_boss) THEN Some(4)
    ELSE None

\* points.py:161-164
apply_modifier_floor(points, modifier) ==
    LET doubled == IF modifier \in {"double", "doublepoints"} THEN points * 2 ELSE points
    IN  IF modifier = "fail" THEN doubled \div 2 ELSE doubled
apply_modifier(points, modifier) ==
    LET doubled == IF modifier \in {"double", "doublepoints"} THEN points * 2 ELSE points
    IN  IF modifier = "fail" THEN (doubled + 1) \div 2 ELSE doubled

\* points.py:108-113 : the key under which the matched boss is looked up
stripped_boss_of(points_map, group) ==
    IF has_key(points_map, group) THEN group
    ELSE IF has_key(points_map, "/" \o group) THEN "/" \o group
    ELSE IF startswith_at(group, 1, "/") /\ has_key(points_map, From(group, 2))
    THEN From(group, 2)
    ELSE group

\* points.py:126-159 : the points of the boss before the modifier applies
base_points(points_map, stripped_boss) ==
    IF has_key(points_map, stripped_boss)
    THEN (IF map_get(points_map, stripped_boss).type = "int"
          THEN Some(map_get(points_map, stripped_boss).v)
          ELSE None)
    ELSE family_points(points_map, stripped_boss)

\* points.py:116-124 and 161-166 : the modifier applied to the base points
modified_points(base, modifier) ==
    IF ~IsSome(base) THEN base
    ELSE Some(apply_modifier((IF modifier = "brucybonus" THEN 5 ELSE 0) + base.some,
                             modifier))

\* points.py:104-166 : the points of the boss given the match of _bosses_re
points_of_match(points_map, prios, boss, match) ==
    IF match = None THEN None
    ELSE IF match.modifier = "comp" /\ ~\E k \in 1..Len(prios) : contains(boss, prios[k])
    THEN None
    ELSE modified_points(base_points(points_map, stripped_boss_of(points_map, match.boss)),
                         match.modifier)

\* points.py:92-166
get_points(points_map, prios, boss) ==
    points_of_match(points_map, prios, boss, bosses_re_match(points_map, boss))

(***************************************************************************)
(* sanitise.py : get_date and validate_lines                               *)
(***************************************************************************)
\* sanitise.py:11
MULTI_NOT_MARKER == "__multinot__"

\* sanitise.py:134-152 : the date texts of the modelled lines that the four
\* patterns recognise and strptime parses, with the instant each denotes
DateTexts == << [text |-> "1 jan 2026 at 20:00", t |-> 0],
                [text |-> "2 jan 2026 at 20:00", t |-> 1] >>

get_date(line) ==
    LET hits == {k \in 1..Len(DateTexts) : startswith_at(line, 1, DateTexts[k].text)}
    IN  IF hits = {} THEN None
        ELSE Some(DateTexts[CHOOSE k \in hits : \A j \in hits : k <= j].t)

RECURSIVE flat_map(_, _)
flat_map(F(_), s) == IF s = <<>> THEN <<>> ELSE F(Head(s)) \o flat_map(F, Tail(s))

in_seq(x, s) == \E k \in 1..Len(s) : s[k] = x
remove_all(x, s) == SelectSeq(s, LAMBDA t : t # x)

\* sanitise.py:238-242
is_valid_modifier(modifier) ==
    \E k \in 1..Len(MODIFIERS) : modifier = "(" \o MODIFIERS[k] \o ")"

\* sanitise.py:256  ^\d+\.[56]$
is_legacy_suffix(t) ==
    LET d == digits_at(t, 1)
    IN  d > 0 /\ Ch(t, d + 1) = "." /\ Ch(t, d + 2) \in {"5", "6"} /\ Len(t) = d + 2

\* sanitise.py:260  ^[1-4]x[5-6]$
is_rings_suffix(t) ==
    Len(t) = 3 /\ Ch(t, 1) \in {"1", "2", "3", "4"} /\ Ch(t, 2) = "x" /\ Ch(t, 3) \in {"5", "6"}

\* sanitise.py:263  ^\d{3}$   and   sanitise.py:270  ^\d{4}\.?$
is_three_digits(t) == Len(t) = 3 /\ digits_at(t, 1) = 3
is_four_digits(t) ==
    digits_at(t, 1) = 4 /\ (Len(t) = 4 \/ (Len(t) = 5 /\ Ch(t, 5) = "."))

\* sanitise.py:296-309 : the shapes of a line with "not" that are accepted
not_shape_ok_loose(full_line, allow_multi_not) ==
    \/ (Len(full_line) >= 3 /\ full_line[2] = "not")
    \/ (Len(full_line) >= 2 /\ full_line[1] = "not")
not_shape_ok(full_line, allow_multi_not) ==
    IF allow_multi_not
    THEN \/ (Len(full_line) >= 3 /\ full_line[2] = "not")
         \/ (Len(full_line) >= 2 /\ full_line[1] = "not")
    ELSE \/ (Len(full_line) = 3 /\ full_line[2] = "not")
         \/ (Len(full_line) = 2 /\ full_line[1] = "not")

\* sanitise.py:236-247 : a modifier given as a token of its own joins the boss
fold_modifier(tokens) ==
    IF is_valid_modifier(tokens[2])
    THEN <<tokens[1] \o tokens[2]>> \o SubSeq(tokens, 3, Len(tokens))
    ELSE tokens

\* sanitise.py:249-253 : the boss popped, the marker noted and removed
pop_boss(full_line) ==
    [boss            |-> full_line[1],
     full_line       |-> remove_all(MULTI_NOT_MARKER, Tail(full_line)),
     allow_multi_not |-> in_seq(MULTI_NOT_MARKER, Tail(full_line))]

\* sanitise.py:255-257
fold_legacy(st) ==
    IF /\ st.boss \in {"/legacy", "legacy"}
       /\ st.full_line # <<>>
       /\ is_legacy_suffix(st.full_line[1])
    THEN [st EXCEPT !.boss = @ \o st.full_line[1], !.full_line = Tail(@)]
    ELSE st

\* sanitise.py:259-261
fold_rings(st) ==
    IF /\ st.boss \in {"/rings", "rings"}
       /\ st.full_line # <<>>
       /\ is_rings_suffix(st.full_line[1])
    THEN [st EXCEPT !.boss = @ \o st.full_line[1], !.full_line = Tail(@)]
    ELSE st

\* sanitise.py:263-268
fold_three_digits(points_map, prios, st) ==
    IF /\ is_three_digits(st.boss)
       /\ st.full_line # <<>>
       /\ st.full_line[1] \in {"4", "5", "6"}
       /\ get_points(points_map, prios, st.boss \o "." \o st.full_line[1]) # None
    THEN [st EXCEPT !.boss = @ \o "." \o st.full_line[1], !.full_line = Tail(@)]
    ELSE st

\* sanitise.py:271
four_digit_candidate(boss) == substr(boss, 1, 3) \o "." \o Ch(boss, 4)

\* sanitise.py:270-273
fold_four_digits(points_map, prios, st) ==
    IF /\ is_four_digits(st.boss)
       /\ get_points(points_map, prios, four_digit_candidate(st.boss)) # None
    THEN [st EXCEPT !.boss = four_digit_candidate(@)]
    ELSE st

\* sanitise.py:236-273 : the boss token and the participant tokens of a line
\* of at least two tokens, after the modifier and family suffixes are folded
fold_boss(points_map, prios, tokens) ==
    fold_four_digits(points_map, prios,
        fold_three_digits(points_map, prios,
            fold_rings(fold_legacy(pop_boss(fold_modifier(tokens))))))

\* an outcome of the third loop for one line
Outcome(kind, tokens, boss, at, bad_not, singles) ==
    [kind |-> kind, tokens |-> tokens, boss |-> boss, at |-> at,
     bad_not |-> bad_not, singles |-> singles]

\* sanitise.py:275-315 : the line whose boss and participants are fb
validate_folded_boss_first(points_map, prios, fb) ==
    IF get_points(points_map, prios, fb.boss) = None
    THEN IF in_seq("not", fb.full_line)
         THEN Outcome("ambiguous", <<>>, fb.boss, FALSE, FALSE, 0)
         ELSE IF /\ fb.full_line # <<>>
                 /\ get_points(points_map, prios, fb.full_line[1]) # None
         THEN Outcome("fallback", <<fb.boss>> \o fb.full_line,
                      fb.boss, FALSE, FALSE, 0)
         ELSE Outcome("boss", <<>>, fb.boss, FALSE, FALSE, 0)
    ELSE Outcome("ok", <<fb.boss>> \o fb.full_line, fb.boss,
                 in_seq("at", fb.full_line),
                 in_seq("not", fb.full_line)
                     /\ ~not_shape_ok(fb.full_line, fb.allow_multi_not),
                 Len(SelectSeq(fb.full_line, LAMBDA name : Len(name) = 1)))
validate_folded_ignoring_not(points_map, prios, fb) ==
    IF get_points(points_map, prios, fb.boss) = None
    THEN IF /\ fb.full_line # <<>>
            /\ get_points(points_map, prios, fb.full_line[1]) # None
         THEN Outcome("fallback", <<fb.full_line[1], fb.boss>> \o Tail(fb.full_line),
                      fb.boss, FALSE, FALSE, 0)
         ELSE Outcome("boss", <<>>, fb.boss, FALSE, FALSE, 0)
    ELSE Outcome("ok", <<fb.boss>> \o fb.full_line, fb.boss,
                 in_seq("at", fb.full_line),
                 in_seq("not", fb.full_line)
                     /\ ~not_shape_ok(fb.full_line, fb.allow_multi_not),
                 Len(SelectSeq(fb.full_line, LAMBDA name : Len(name) = 1)))
validate_folded(points_map, prios, fb) ==
    IF get_points(points_map, prios, fb.boss) = None
    THEN IF in_seq("not", fb.full_line)
         THEN Outcome("ambiguous", <<>>, fb.boss, FALSE, FALSE, 0)
         ELSE IF /\ fb.full_line # <<>>
                 /\ get_points(points_map, prios, fb.full_line[1]) # None
         THEN Outcome("fallback", <<fb.full_line[1], fb.boss>> \o Tail(fb.full_line),
                      fb.boss, FALSE, FALSE, 0)
         ELSE Outcome("boss", <<>>, fb.boss, FALSE, FALSE, 0)
    ELSE Outcome("ok", <<fb.boss>> \o fb.full_line, fb.boss,
                 in_seq("at", fb.full_line),
                 in_seq("not", fb.full_line)
                     /\ ~not_shape_ok(fb.full_line, fb.allow_multi_not),
                 Len(SelectSeq(fb.full_line, LAMBDA name : Len(name) = 1)))

\* sanitise.py:230-315 : what the third loop does with one (index, tokens)
\*   kind "general" / "ambiguous" / "boss" : recorded in that error list
\*   kind "fallback" / "ok"                : emitted as a FormattedLine
validate_tokens_dropping_short(points_map, prios, tokens) ==
    IF Len(tokens) < 2
    THEN Outcome("short", <<>>, "", FALSE, FALSE, 0)
    ELSE validate_folded(points_map, prios, fold_boss(points_map, prios, tokens))
validate_tokens(points_map, prios, tokens) ==
    IF Len(tokens) < 2
    THEN Outcome("general", <<>>, "", FALSE, FALSE, 0)
    ELSE validate_folded(points_map, prios, fold_boss(points_map, prios, tokens))

\* sanitise.py:219-227 : the tokens after the last ":", <<>> when the line is
\* a general error of the second loop
has_segment(line) ==
    contains(line, ":") /\ strip(From(line, rfind(line, ":") + 1)) # ""
segment_tokens(line) == split(strip(From(line, rfind(line, ":") + 1)))

\* sanitise.py:25-36
errors_any_but_general(errors) ==
    \/ errors.date_lines # <<>>
    \/ errors.boss_lines # <<>>
    \/ errors.at_lines # <<>>
    \/ errors.single_char_lines # <<>>
    \/ errors.incorrect_not_lines # <<>>
    \/ errors.ambiguous_not_boss_lines # <<>>
errors_any(errors) ==
    \/ errors.date_lines # <<>>
    \/ errors.boss_lines # <<>>
    \/ errors.at_lines # <<>>
    \/ errors.single_char_lines # <<>>
    \/ errors.incorrect_not_lines # <<>>
    \/ errors.ambiguous_not_boss_lines # <<>>
    \/ errors.general_lines # <<>>

(***************************************************************************)
(* The files the model runs on                                             *)
(***************************************************************************)
\* the files of base_dir and the sheet the model runs on
PointsTable == << [key |-> "boss1", value |-> IntValue(10)],
                  [key |-> "/boss2", value |-> IntValue(5)] >>
Prios == <<>>
BossAliases == << <<"b1", "boss1">> >>
NameAliases == << <<"Al", "Alice">> >>
RosterNames == <<"Alice", "Bob", "Ab Ba">>

\* the timers files of the model: dated lines whose names resolve without
\* the callback, lines with a token the roster does not know, and one line
\* for each category of validation error
KnownLines == {"1 jan 2026 at 20:00:boss1 alice bob alice",
               "2 jan 2026 at 20:00:boss1 not alice bob __multinot__",
               "2 jan 2026 at 20:00:Boss2 Alice not bob bob __multinot__",
               "2 jan 2026 at 20:00:boss1 not not not",
               "1 jan 2026 at 20:00:b1 (double) al"}
UnknownLines == {"1 jan 2026 at 20:00:boss1 alice zed bob",
                 "2 jan 2026 at 20:00:boss2 zed"}
\* a line on which the lowercase form of a name the resolve page can add
\* stands before and after another unknown token
RegisterLines == {"2 jan 2026 at 20:00:boss1 bea zed bea"}
\* a line whose first token is no boss and whose second token is one, with
\* a participant token of one character
FallbackLines == {"2 jan 2026 at 20:00:zzz boss1 x"}
\* lines of the shape "X not Y" with an unknown token before the "not",
\* after it
SplitLines == {"2 jan 2026 at 20:00:boss1 zed not bob",
               "2 jan 2026 at 20:00:boss1 bob not zed"}
ErrorLines == {"someday:boss1 alice",
               "1 jan 2026 at 20:00:zzz alice",
               "1 jan 2026 at 20:00:boss1 at alice",
               "1 jan 2026 at 20:00:boss1 alice x",
               "1 jan 2026 at 20:00:boss1 alice not bob al",
               "1 jan 2026 at 20:00:zzz not bob",
               "1 jan 2026 at 20:00:boss1"}

MaxShape == 4         \* tokens after the boss

\* lines of boss1 followed by every arrangement of a participant and "not",
\* without the multi-not marker, with the marker first, with the marker last
ShapeTokens == {"bob", "not"}
ShapeLines ==
    {"2 jan 2026 at 20:00:" \o join(" ", <<"boss1">> \o before \o ts \o after) :
        ts \in SeqsUpTo(ShapeTokens, MaxShape),
        before \in {<<>>, <<MULTI_NOT_MARKER>>},
        after \in {<<>>, <<MULTI_NOT_MARKER>>}}

TimerLines ==
    KnownLines \cup UnknownLines \cup ErrorLines \cup ShapeLines \cup RegisterLines
    \cup FallbackLines \cup SplitLines

\* sanitise.py:57-115 : sanitize_line, its results for the lines of the model
\* worked out once
SanitizeTable == [raw_line \in TimerLines |-> sanitize_line(raw_line, BossAliases)]
sanitize_line_of(raw_line, aliases) ==
    IF aliases = BossAliases /\ raw_line \in DOMAIN SanitizeTable
    THEN SanitizeTable[raw_line]
    ELSE sanitize_line(raw_line, aliases)

\* sanitise.py:214-227 and 230-315 : what validate_lines finds out about one
\* line: its date, whether a segment follows the last ":", and the outcome of
\* the third loop
line_facts(points_map, prios, text) ==
    [date    |-> get_date(text),
     segment |-> has_segment(text),
     outcome |-> IF has_segment(text)
                 THEN validate_tokens(points_map, prios, segment_tokens(text))
                 ELSE Outcome("general", <<>>, "", FALSE, FALSE, 0)]

\* line_facts, its results for the lines of the model worked out once
FactsTable ==
    [text \in {SanitizeTable[raw_line] : raw_line \in TimerLines} |->
        line_facts(PointsTable, Prios, text)]
facts_of(points_map, prios, text) ==
    IF points_map = PointsTable /\ prios = Prios /\ text \in DOMAIN FactsTable
    THEN FactsTable[text]
    ELSE line_facts(points_map, prios, text)

\* the positions k of the list for which Test(k) holds, in order
positions_where(n, Test(_)) == SelectSeq([k \in 1..n |-> k], Test)

\* sanitise.py:214-328 : the error lists and the formatted lines, from what
\* the loops find out about each line (facts[k] for lines[k])
collect_lines(lines, facts) ==
    [formatted_lines |->
        flat_map(LAMBDA k : IF facts[k].segment /\ facts[k].outcome.kind \in {"fallback", "ok"}
                            THEN << <<lines[k][1], facts[k].outcome.tokens>> >> ELSE <<>>,
                 [k \in 1..Len(lines) |-> k]),
     errors |->
        [date_lines |->
             flat_map(LAMBDA k : <<lines[k][1]>>,
                      positions_where(Len(lines), LAMBDA k : facts[k].date = None)),
         boss_lines |->
             flat_map(LAMBDA k : <<lines[k][1]>>,
                      positions_where(Len(lines), LAMBDA k : facts[k].segment
                                          /\ facts[k].outcome.kind = "boss")),
         at_lines |->
             flat_map(LAMBDA k : <<lines[k][1]>>,
                      positions_where(Len(lines), LAMBDA k : facts[k].segment
                                          /\ facts[k].outcome.at)),
         single_char_lines |->
             flat_map(LAMBDA k : IF facts[k].segment
                                 THEN [j \in 1..facts[k].outcome.singles |-> lines[k][1]]
                                 ELSE <<>>,
                      [k \in 1..Len(lines) |-> k]),
         incorrect_not_lines |->
             flat_map(LAMBDA k : <<lines[k][1]>>,
                      positions_where(Len(lines), LAMBDA k : facts[k].segment
                                          /\ facts[k].outcome.bad_not)),
         ambiguous_not_boss_lines |->
             flat_map(LAMBDA k : <<lines[k][1]>>,
                      positions_where(Len(lines), LAMBDA k : facts[k].segment
                                          /\ facts[k].outcome.kind = "ambiguous")),
         general_lines |->
             flat_map(LAMBDA k : <<lines[k][1]>>,
                      positions_where(Len(lines), LAMBDA k : ~facts[k].segment))
             \o flat_map(LAMBDA k : <<lines[k][1]>>,
                         positions_where(Len(lines), LAMBDA k : facts[k].segment
                                             /\ facts[k].outcome.kind = "general")),
         unknown_bosses |->
             [b \in {facts[k].outcome.boss :
                        k \in {j \in 1..Len(lines) :
                                  facts[j].segment
                                  /\ facts[j].outcome.kind \in {"ambiguous", "boss"}}} |->
                 flat_map(LAMBDA k : <<lines[k][1]>>,
                          positions_where(Len(lines), LAMBDA k :
                              /\ facts[k].segment
                              /\ facts[k].outcome.kind \in {"ambiguous", "boss"}
                              /\ facts[k].outcome.boss = b))]]]

\* sanitise.py:201-328 : lines are pairs <<index, text>>
validate_lines(lines, points_map, prios) ==
    collect_lines(lines, [k \in 1..Len(lines) |-> facts_of(points_map, prios, lines[k][2])])

(***************************************************************************)
(* sanitise.py : preprocess_lines and slice_by_date                        *)
(***************************************************************************)
\* sanitise.py:118-131 : lines are numbered from 1, empty results are dropped
RECURSIVE preprocess_from(_, _, _)
preprocess_from(raws, index, aliases) ==
    IF index > Len(raws) THEN <<>>
    ELSE LET updated == sanitize_line_of(raws[index], aliases)
         IN  (IF updated = "" THEN <<>> ELSE << <<index, updated>> >>)
             \o preprocess_from(raws, index + 1, aliases)

preprocess_lines(raws, aliases) == preprocess_from(raws, 1, aliases)

\* list[a:b], a and b 0-based as in the source, clamped to the list
list_slice(list, a, b) ==
    LET hi == IF b > Len(list) THEN Len(list) ELSE b
    IN  IF a >= hi THEN <<>> ELSE SubSeq(list, a + 1, hi)

\* sanitise.py:171-174 : a naive datetime is read in the local zone
to_utc(value, off) == IF value.aware THEN value.t ELSE value.t - off

\* sanitise.py:182-192 : the loop over the lines from the last to the first;
\* k is the 1-based position, index = k - 1
RECURSIVE slice_scan(_, _, _, _, _, _)
slice_scan(lines, k, end_index, start_utc, end_utc, off) ==
    IF k = 0 THEN [start_index |-> 0, end_index |-> end_index]
    ELSE LET as_date == get_date(lines[k][2])
         IN  IF as_date = None
             THEN slice_scan(lines, k - 1, end_index, start_utc, end_utc, off)
             ELSE LET as_utc == to_utc([t |-> as_date.some, aware |-> FALSE], off)
                  IN  IF end_index = 0
                      THEN slice_scan(lines, k - 1,
                                      IF as_utc <= end_utc THEN k - 1 ELSE end_index,
                                      start_utc, end_utc, off)
                      ELSE IF as_utc < start_utc
                      THEN [start_index |-> k, end_index |-> end_index]
                      ELSE slice_scan(lines, k - 1, end_index, start_utc, end_utc, off)

\* sanitise.py:164-198, called with both ends of the window (workflow.py:110)
slice_by_date(lines, start, end, off) ==
    LET found == slice_scan(lines, Len(lines), 0, to_utc(start, off), to_utc(end, off), off)
    IN  IF found.end_index < found.start_index THEN <<>>
        ELSE list_slice(lines, found.start_index, found.end_index + 1)

\* sanitise.py:331-338
build_sanity_check(lines) ==
    IF lines = <<>>
    THEN [first_entry |-> NoneVal, last_entry |-> NoneVal, total_lines |-> 0]
    ELSE [first_entry |-> lines[1][2], last_entry |-> Last(lines)[2],
          total_lines |-> Len(lines)]

(***************************************************************************)
(* Python dicts, sets and sorting as used by workflow.py                   *)
(***************************************************************************)
\* a dict whose order is never observed: a function on its keys
EmptyDict == [k \in {} |-> 0]
dict_get(d, key, default) == IF key \in DOMAIN d THEN d[key] ELSE default
dict_set(d, key, value) == [k \in DOMAIN d \cup {key} |-> IF k = key THEN value ELSE d[k]]
dict_pop(d, key) == [k \in DOMAIN d \ {key} |-> d[k]]

\* a dict whose insertion order is observed (dkp_count): the items in order
items_has(items, key) == \E k \in 1..Len(items) : items[k][1] = key
items_get(items, key, default) ==
    IF items_has(items, key)
    THEN items[CHOOSE k \in 1..Len(items) : items[k][1] = key][2]
    ELSE default
items_set(items, key, value) ==
    IF items_has(items, key)
    THEN [k \in 1..Len(items) |-> IF items[k][1] = key THEN <<key, value>> ELSE items[k]]
    ELSE Append(items, <<key, value>>)

\* the characters of the model in code point order
CodeOrder == <<"\t", " ", "(", ")", ".", "/", "0", "1", "2", "3", "4", "5", "6", "7", "8",
               "9", ":", "A", "B", "_", "a", "b", "c", "d", "e", "f", "g", "h", "i", "j",
               "k", "l", "m", "n", "o", "p", "q", "r", "s", "t", "u", "v", "w", "x", "y",
               "z", "é">>
ord(c) == CHOOSE k \in 1..Len(CodeOrder) : CodeOrder[k] = c

\* a < b for str
RECURSIVE str_lt(_, _)
str_lt(a, b) ==
    IF b = "" THEN FALSE
    ELSE IF a = "" THEN TRUE
    ELSE IF Head(a) = Head(b) THEN str_lt(Tail(a), Tail(b))
    ELSE ord(Head(a)) < ord(Head(b))

\* list.sort(key=Key) / sorted(..., key=Key) : stable
RECURSIVE sort_insert(_, _, _)
sort_insert(Key(_), sorted, item) ==
    IF sorted = <<>> THEN <<item>>
    ELSE IF str_lt(Key(item), Key(Last(sorted)))
         THEN Append(sort_insert(Key, SubSeq(sorted, 1, Len(sorted) - 1), item), Last(sorted))
         ELSE Append(sorted, item)

RECURSIVE sort_by(_, _)
sort_by(Key(_), items) ==
    IF items = <<>> THEN <<>>
    ELSE sort_insert(Key, sort_by(Key, SubSeq(items, 1, Len(items) - 1)), Last(items))

\* the orders in which a set can be iterated
Orderings(S) == {order \in [1..Cardinality(S) -> S] : \A x \in S : \E k \in DOMAIN order : order[k] = x}

(***************************************************************************)
(* workflow.py : calculate_points                                          *)
(***************************************************************************)
MaxLines == 3         \* lines of the timers file
MaxCalls == 2         \* invocations of resolve_unknown in one run

\* workflow.py:98
strict_prefix == "__strict__"

\* workflow.py:101-107
normalize_boss_key(raw_boss) ==
    LET cleaned == strip(raw_boss)
        base    == IF contains(cleaned, "(") /\ endswith(cleaned, ")")
                   THEN substr(cleaned, 1, find(cleaned, "(") - 1)
                   ELSE cleaned
    IN  IF startswith_at(base, 1, "/") THEN From(base, 2) ELSE base

\* str.rstrip("0123456789") and str.isnumeric()
RECURSIVE rstrip_digits(_)
rstrip_digits(s) ==
    IF s # "" /\ isdigit(Ch(s, Len(s))) THEN rstrip_digits(substr(s, 1, Len(s) - 1)) ELSE s
isnumeric(s) == s # "" /\ digits_at(s, 1) = Len(s)

\* workflow.py:60-83 : alias_file the items of name_aliases.json in file order
RECURSIVE aliases_of_file(_, _)
aliases_of_file(alias_file, k) ==
    IF k = 0 THEN EmptyDict
    ELSE dict_set(aliases_of_file(alias_file, k - 1), lower(alias_file[k][1]), alias_file[k][2])

RECURSIVE aliases_of_names(_, _, _)
aliases_of_names(start, names, k) ==
    IF k = 0 THEN start
    ELSE LET before == aliases_of_names(start, names, k - 1)
             name   == names[k]
         IN  IF contains(name, " ")
             THEN LET parts  == split(name)
                      joined == lower(join("", parts))
                  IN  dict_set(dict_set(dict_set(before, lower(parts[1]), name),
                                        joined, name),
                               rstrip_digits(joined), name)
             ELSE IF isnumeric(name)
                  THEN dict_set(before, lower(name), name)
                  ELSE dict_set(dict_set(before, lower(name), name),
                                lower(rstrip_digits(name)), name)

build_aliases(names, alias_file) ==
    dict_set(dict_set(aliases_of_names(aliases_of_file(alias_file, Len(alias_file)),
                                       names, Len(names)),
                      "nekotin", "NEKOTIN"),
             "nekotin2", "NEKOTIN2")

\* workflow.py:135
sheet_lookup_of(names) ==
    [key \in {lower(names[k]) : k \in 1..Len(names)} |->
        names[CHOOSE k \in 1..Len(names) :
                 lower(names[k]) = key /\ \A j \in (k + 1)..Len(names) : lower(names[j]) # key]]

\* autocorrect.py:12-18
add_word(words, word) ==
    IF word = "" THEN words
    ELSE IF lower(word) \in DOMAIN words THEN words
    ELSE dict_set(words, lower(word), word)

\* autocorrect.py:7-10
RECURSIVE Autocorrecter(_, _)
Autocorrecter(names, k) ==
    IF k = 0 THEN EmptyDict ELSE add_word(Autocorrecter(names, k - 1), names[k])

\* autocorrect.py:20-26 : the (at most five) words most similar to the input;
\* which words textdistance.cosine ranks first is left open: any word of the
\* vocabulary may be among the suggestions the callback picks from
correct(words, input_word) == {words[key] : key \in DOMAIN words}

\* aliases.py:27-36 : data[alias.lower()] = canonical
add_name_alias(alias_file, alias, canonical) ==
    IF \E k \in 1..Len(alias_file) : alias_file[k][1] = lower(alias)
    THEN [k \in 1..Len(alias_file) |->
             IF alias_file[k][1] = lower(alias) THEN <<lower(alias), canonical>>
             ELSE alias_file[k]]
    ELSE Append(alias_file, <<lower(alias), canonical>>)

\* workflow.py:23-31
Resolution(names, cache_original, add_new, persist_alias, merge_with_prev, merge_with_next,
           reprocess) ==
    [names |-> names, cache_original |-> cache_original, add_new |-> add_new,
     persist_alias |-> persist_alias, merge_with_prev |-> merge_with_prev,
     merge_with_next |-> merge_with_next, reprocess |-> reprocess]

\* the names typed into the resolve page: a custom name (off the roster, on
\* the roster), a new name, two roster names for a split
TypedNames == {"Bea", "Ab Ba"}
NewNames == {"Bea"}
SplitNames == {<<"Alice", "Bob">>, <<"Bob", MULTI_NOT_MARKER>>}

\* workflow.py:119-125 : resolve_unknown is a parameter of calculate_points;
\* a caller other than the two pages may answer a split with cache_original
CachedSplitNames == {<<"Alice", "Bob">>}

\* wizard.py:2373-2480 and dialogs.py:125-200 : the answers the resolve page
\* and the resolve dialog build, None for "discard"
Answers(name, suggestions, prev_token, next_token) ==
    {None}
    \cup (IF prev_token = "" THEN {}
          ELSE {Resolution(<<prev_token \o name>>, FALSE, FALSE, FALSE, TRUE, FALSE, re) :
                    re \in BOOLEAN})
    \cup (IF next_token = "" THEN {}
          ELSE {Resolution(<<name \o next_token>>, FALSE, FALSE, FALSE, FALSE, TRUE, re) :
                    re \in BOOLEAN})
    \cup {Resolution(<<s>>, TRUE, FALSE, persist, FALSE, FALSE, FALSE) :
              s \in suggestions, persist \in BOOLEAN}
    \cup {Resolution(<<v>>, TRUE, FALSE, FALSE, FALSE, FALSE, re) :
              v \in TypedNames, re \in BOOLEAN}
    \cup {Resolution(pair, FALSE, FALSE, FALSE, FALSE, FALSE, re) :
              pair \in SplitNames, re \in BOOLEAN}
    \cup {Resolution(<<v>>, TRUE, TRUE, persist, FALSE, FALSE, FALSE) :
              v \in NewNames, persist \in BOOLEAN}
    \cup {Resolution(pair, TRUE, FALSE, FALSE, FALSE, FALSE, FALSE) :
              pair \in CachedSplitNames}

TimerFiles ==
    SeqsUpTo(KnownLines, MaxLines)
    \cup {<<x>> : x \in UnknownLines \cup ErrorLines}
    \cup {<<x, g>> : x \in UnknownLines \cup ErrorLines, g \in KnownLines}
    \cup {<<g, x>> : x \in UnknownLines \cup ErrorLines, g \in KnownLines}
    \cup {<<x, y>> : x \in UnknownLines, y \in UnknownLines \cup ErrorLines}
    \cup {<<x>> : x \in RegisterLines \cup FallbackLines \cup SplitLines}

\* wizard.py:1062-1084 : all entries, or a window of two UTC datetimes
ScoreWindows == {[use_all_entries |-> TRUE, start_date |-> None, end_date |-> None],
                 [use_all_entries |-> FALSE, start_date |-> [t |-> 1, aware |-> TRUE],
                  end_date |-> [t |-> 1, aware |-> TRUE]]}

NoResult == [none |-> TRUE]

\* workflow.py:119-125 and 400-407
CalculationResult(totals, sanity, errors, counts, boss_list, events) ==
    [totals |-> totals, sanity |-> sanity, errors |-> errors, boss_counts |-> counts,
     boss_list |-> boss_list, events |-> events]

InitScore ==
    /\ raw_lines \in TimerFiles
    /\ window \in ScoreWindows
    /\ pc = "preprocess"
    /\ cp_lines = <<>>
    /\ formatted_lines = <<>>
    /\ cp_errors = NoResult
    /\ line_pos = 0
    /\ name_tokens = <<>>
    /\ cp_i = 0
    /\ last_appended_token = NoneVal
    /\ actual_names = <<>>
    /\ cp_aliases = EmptyDict
    /\ vocab = EmptyDict
    /\ discard = {}
    /\ name_aliases_file = NameAliases
    /\ dkp_count = <<>>
    /\ boss_counts = EmptyDict
    /\ boss_set = {}
    /\ cp_events = <<>>
    /\ event_entries = <<>>
    /\ entry_pos = 0
    /\ calls = <<>>
    /\ result = NoResult

\* workflow.py:109-110 : the lines of the window, off the offset of the
\* local zone
window_lines(pre, off) ==
    IF /\ ~window.use_all_entries
       /\ window.start_date # None
       /\ window.end_date # None
    THEN slice_by_date(pre, window.start_date, window.end_date, off)
    ELSE pre

\* workflow.py:96-110 : the timer file preprocessed and sliced
Preprocess ==
    /\ pc = "preprocess"
    /\ \E off \in LocalOffsets :
          cp_lines' = window_lines(preprocess_lines(raw_lines, BossAliases), off)
    /\ pc' = "validate"
    /\ UNCHANGED <<raw_lines, window, formatted_lines, cp_errors, line_pos, name_tokens, cp_i,
                   last_appended_token, actual_names, cp_aliases, vocab, discard,
                   name_aliases_file, dkp_count, boss_counts, boss_set, cp_events,
                   event_entries, entry_pos, calls, result>>

\* workflow.py:113 : formatted_lines, errors = validate_lines(lines, points_store)
validated_into(valid) ==
    /\ formatted_lines' = valid.formatted_lines
    /\ cp_errors' = valid.errors

\* workflow.py:112-113
Validate ==
    /\ pc = "validate"
    /\ validated_into(validate_lines(cp_lines, PointsTable, Prios))
    /\ pc' = "gate"
    /\ UNCHANGED <<raw_lines, window, cp_lines, line_pos, name_tokens, cp_i,
                   last_appended_token, actual_names, cp_aliases, vocab, discard,
                   name_aliases_file, dkp_count, boss_counts, boss_set, cp_events,
                   event_entries, entry_pos, calls, result>>

\* workflow.py:117-139 : the gate, and the state the loop starts from
Gate ==
    /\ pc = "gate"
    /\ IF errors_any(cp_errors)
       THEN /\ result' = CalculationResult(<<>>, build_sanity_check(cp_lines), cp_errors,
                                           EmptyDict, <<>>, <<>>)
            /\ pc' = "done"
            /\ UNCHANGED <<cp_aliases, vocab, line_pos>>
       ELSE /\ cp_aliases' = build_aliases(RosterNames, name_aliases_file)
            /\ vocab' = Autocorrecter(RosterNames, Len(RosterNames))
            /\ line_pos' = 1
            /\ pc' = "line"
            /\ UNCHANGED result
    /\ UNCHANGED <<raw_lines, window, cp_lines, formatted_lines, cp_errors, name_tokens, cp_i,
                   last_appended_token, actual_names, discard, name_aliases_file, dkp_count,
                   boss_counts, boss_set, cp_events, event_entries, entry_pos, calls>>

\* the line the for loop of workflow.py:144 stands at
line_index == formatted_lines[line_pos][1]
tokens_of_line == formatted_lines[line_pos][2]
boss_of_line == tokens_of_line[1]
points_of_line == get_points(PointsTable, Prios, boss_of_line)
boss_key_of_line == normalize_boss_key(boss_of_line)

\* workflow.py:115 : line_map.get(idx, "")
line_map_get(idx) ==
    IF \E k \in 1..Len(cp_lines) : cp_lines[k][1] = idx
    THEN cp_lines[CHOOSE k \in 1..Len(cp_lines) :
                     cp_lines[k][1] = idx /\ \A j \in (k + 1)..Len(cp_lines) : cp_lines[j][1] # idx][2]
    ELSE ""
line_text_raw == line_map_get(line_index)
line_prefix ==
    IF contains(line_text_raw, ":")
    THEN substr(line_text_raw, 1, rfind(line_text_raw, ":") - 1)
    ELSE ""

\* workflow.py:144-163 : the head of one iteration of the for loop
StartLine ==
    /\ pc = "line"
    /\ line_pos <= Len(formatted_lines)
    /\ IF tokens_of_line = <<>>
       THEN /\ line_pos' = line_pos + 1
            /\ UNCHANGED <<pc, cp_errors, name_tokens, cp_i, last_appended_token, actual_names>>
       ELSE IF points_of_line = None
       THEN /\ cp_errors' = [cp_errors EXCEPT !.boss_lines = Append(@, line_index)]
            /\ line_pos' = line_pos + 1
            /\ UNCHANGED <<pc, name_tokens, cp_i, last_appended_token, actual_names>>
       ELSE /\ name_tokens' = Tail(tokens_of_line)
            /\ cp_i' = 0
            /\ last_appended_token' = NoneVal
            /\ actual_names' = <<>>
            /\ pc' = "scan"
            /\ UNCHANGED <<cp_errors, line_pos>>
    /\ UNCHANGED <<raw_lines, window, cp_lines, formatted_lines, cp_aliases, vocab, discard,
                   name_aliases_file, dkp_count, boss_counts, boss_set, cp_events,
                   event_entries, entry_pos, calls, result>>

\* workflow.py:166-172 : the token under the cursor without its strict tag
is_strict(raw_token) == startswith_at(raw_token, 1, strict_prefix)
unstrict_keeping_prefix(raw_token) == raw_token
unstrict(raw_token) ==
    IF is_strict(raw_token) THEN From(raw_token, Len(strict_prefix) + 1) ELSE raw_token
raw_token_at(k) == IF k >= 0 /\ k < Len(name_tokens) THEN name_tokens[k + 1] ELSE ""
name_at_cursor == unstrict(raw_token_at(cp_i))

\* the variables no iteration of the while loop writes
varsNotScan == <<raw_lines, window, pc, cp_lines, formatted_lines, cp_errors, line_pos,
                 dkp_count, boss_counts, boss_set, cp_events, event_entries, entry_pos,
                 result>>

\* workflow.py:173-175
ScanMarker ==
    /\ pc = "scan" /\ cp_i < Len(name_tokens)
    /\ name_at_cursor = MULTI_NOT_MARKER
    /\ cp_i' = cp_i + 1
    /\ UNCHANGED <<name_tokens, last_appended_token, actual_names, cp_aliases, vocab,
                   discard, name_aliases_file, calls>>
    /\ UNCHANGED varsNotScan

\* workflow.py:176-180
ScanNot ==
    /\ pc = "scan" /\ cp_i < Len(name_tokens)
    /\ name_at_cursor # MULTI_NOT_MARKER
    /\ name_at_cursor = "not"
    /\ actual_names' = Append(actual_names, "not")
    /\ last_appended_token' = NoneVal
    /\ cp_i' = cp_i + 1
    /\ UNCHANGED <<name_tokens, cp_aliases, vocab, discard, name_aliases_file, calls>>
    /\ UNCHANGED varsNotScan

\* workflow.py:182-184
ScanSkip ==
    /\ pc = "scan" /\ cp_i < Len(name_tokens)
    /\ name_at_cursor \notin {MULTI_NOT_MARKER, "not"}
    /\ (name_at_cursor \in discard \/ Len(name_at_cursor) <= 1)
    /\ cp_i' = cp_i + 1
    /\ UNCHANGED <<name_tokens, last_appended_token, actual_names, cp_aliases, vocab,
                   discard, name_aliases_file, calls>>
    /\ UNCHANGED varsNotScan

\* the guards of workflow.py:173-184 all failed
reaches_lookup_despite_discard ==
    /\ pc = "scan" /\ cp_i < Len(name_tokens)
    /\ name_at_cursor \notin {MULTI_NOT_MARKER, "not"}
    /\ Len(name_at_cursor) > 1
reaches_lookup ==
    /\ pc = "scan" /\ cp_i < Len(name_tokens)
    /\ name_at_cursor \notin {MULTI_NOT_MARKER, "not"}
    /\ name_at_cursor \notin discard
    /\ Len(name_at_cursor) > 1

\* workflow.py:186 : aliases.get(name) is truthy
alias_hit(name) == name \in DOMAIN cp_aliases /\ cp_aliases[name] # ""

\* workflow.py:186-191
ScanAlias ==
    /\ reaches_lookup
    /\ alias_hit(name_at_cursor)
    /\ actual_names' = Append(actual_names, cp_aliases[name_at_cursor])
    /\ last_appended_token' = name_at_cursor
    /\ cp_i' = cp_i + 1
    /\ UNCHANGED <<name_tokens, cp_aliases, vocab, discard, name_aliases_file, calls>>
    /\ UNCHANGED varsNotScan

\* workflow.py:192-196
ScanStrict ==
    /\ reaches_lookup
    /\ ~alias_hit(name_at_cursor)
    /\ is_strict(raw_token_at(cp_i))
    /\ name_at_cursor \in DOMAIN sheet_lookup_of(RosterNames)
    /\ actual_names' = Append(actual_names, sheet_lookup_of(RosterNames)[name_at_cursor])
    /\ last_appended_token' = name_at_cursor
    /\ cp_i' = cp_i + 1
    /\ UNCHANGED <<name_tokens, cp_aliases, vocab, discard, name_aliases_file, calls>>
    /\ UNCHANGED varsNotScan

\* workflow.py:200-223 : the neighbours offered for a merge
prev_token_of_any_last ==
    LET prev_token_raw == unstrict(raw_token_at(cp_i - 1))
    IN  IF /\ prev_token_raw # ""
           /\ prev_token_raw \notin {"not", MULTI_NOT_MARKER}
           /\ Len(prev_token_raw) > 1
           /\ prev_token_raw \notin discard
        THEN prev_token_raw ELSE ""
prev_token_of ==
    LET prev_token_raw == unstrict(raw_token_at(cp_i - 1))
    IN  IF /\ prev_token_raw # ""
           /\ prev_token_raw \notin {"not", MULTI_NOT_MARKER}
           /\ Len(prev_token_raw) > 1
           /\ prev_token_raw \notin discard
           /\ last_appended_token = prev_token_raw
        THEN prev_token_raw ELSE ""
next_token_of ==
    LET next_token_raw == unstrict(raw_token_at(cp_i + 1))
    IN  IF /\ next_token_raw # ""
           /\ next_token_raw \notin {"not", MULTI_NOT_MARKER}
           /\ Len(next_token_raw) > 1
           /\ next_token_raw \notin discard
        THEN next_token_raw ELSE ""

\* workflow.py:225-232
line_text_of ==
    LET display_tokens == [k \in 1..Len(name_tokens) |-> unstrict(name_tokens[k])]
        entry          == join(" ", <<boss_of_line>> \o display_tokens)
    IN  IF line_prefix # "" THEN line_prefix \o ":" \o entry ELSE entry

\* list[a:b] = replacement, a and b 0-based as in the source
splice(list, a, b, replacement) ==
    list_slice(list, 0, a) \o replacement \o list_slice(list, b, Len(list))

\* list.pop() guarded by "if actual_names"
pop_last(list) == IF list = <<>> THEN list ELSE SubSeq(list, 1, Len(list) - 1)

\* the locals and caches one resolution may write
scan_state == [name_tokens |-> name_tokens, i |-> cp_i, last |-> last_appended_token,
               actual_names |-> actual_names, aliases |-> cp_aliases, vocab |-> vocab,
               discard |-> discard, file |-> name_aliases_file]

\* workflow.py:305-319 : the loop over resolution.names, k names done
RECURSIVE resolve_corrections(_, _, _, _)
resolve_corrections(st, name, resolution, k) ==
    IF k = 0 THEN st
    ELSE LET before         == resolve_corrections(st, name, resolution, k - 1)
             correction     == resolution.names[k]
             correction_key == lower(correction)
             known          == correction_key \in DOMAIN before.aliases
             resolved       == IF known THEN before.aliases[correction_key] ELSE correction
             registered     == IF known THEN before.aliases
                               ELSE dict_set(before.aliases, correction_key, correction)
         IN  [before EXCEPT
                !.aliases = IF resolution.cache_original
                            THEN dict_set(registered, name, resolved)
                            ELSE registered,
                !.vocab = IF known THEN @ ELSE add_word(@, correction),
                !.file = IF /\ resolution.cache_original
                            /\ resolution.persist_alias
                            /\ Len(resolution.names) = 1
                         THEN add_name_alias(@, name, resolved)
                         ELSE @,
                !.actual_names = Append(@, resolved)]

\* workflow.py:284-285 : the token and the lowercase form of the new name
\* both map to the new name
register_new_name_only(aliases, name, new_name) ==
    dict_set(aliases, lower(new_name), new_name)
register_new(aliases, name, new_name) ==
    dict_set(dict_set(aliases, name, new_name), lower(new_name), new_name)

\* workflow.py:244-330 : what the loop does with the callback's answer
apply_resolution(st, name, prev_token, next_token, resolution) ==
    IF resolution = None
    THEN [st EXCEPT !.discard = @ \cup {name}, !.i = @ + 1]
    ELSE
    LET with_prev == resolution.merge_with_prev /\ prev_token # ""
        with_next == resolution.merge_with_next /\ next_token # ""
    IN  IF resolution.reprocess
        THEN LET kept == SelectSeq(resolution.names, LAMBDA n : n # "")
                 replacement_tokens == [k \in 1..Len(kept) |-> strict_prefix \o lower(kept[k])]
             IN  IF replacement_tokens = <<>>
                 THEN [st EXCEPT !.discard = @ \cup {name}, !.i = @ + 1]
                 ELSE IF with_prev /\ st.i - 1 >= 0
                 THEN [st EXCEPT !.actual_names = pop_last(@),
                                 !.name_tokens = splice(@, st.i - 1, st.i + 1, replacement_tokens),
                                 !.i = IF st.i - 1 > 0 THEN st.i - 1 ELSE 0,
                                 !.last = NoneVal]
                 ELSE IF with_next /\ st.i + 1 < Len(st.name_tokens)
                 THEN [st EXCEPT !.name_tokens = splice(@, st.i, st.i + 2, replacement_tokens),
                                 !.last = NoneVal]
                 ELSE [st EXCEPT !.name_tokens = splice(@, st.i, st.i + 1, replacement_tokens),
                                 !.last = NoneVal]
        ELSE LET popped == IF with_prev THEN [st EXCEPT !.actual_names = pop_last(@)] ELSE st
                 last   == IF with_prev THEN prev_token \o name
                           ELSE IF with_next THEN name \o next_token
                           ELSE name
                 step   == IF with_next THEN 2 ELSE 1
             IN  IF resolution.add_new
                 THEN LET new_name == resolution.names[1]
                      IN  [popped EXCEPT
                             !.aliases = register_new(@, name, new_name),
                             !.vocab = add_word(@, new_name),
                             !.actual_names = Append(@, new_name),
                             !.last = last,
                             !.file = IF resolution.persist_alias
                                      THEN add_name_alias(@, name, new_name) ELSE @,
                             !.i = @ + step]
                 ELSE LET after == resolve_corrections(popped, name, resolution,
                                                       Len(resolution.names))
                      IN  [after EXCEPT
                             !.last = IF resolution.names # <<>> THEN last ELSE @,
                             !.i = @ + step]

\* workflow.py:198-330 : the token is unknown, the callback is asked
ScanCallback ==
    /\ reaches_lookup
    /\ ~alias_hit(name_at_cursor)
    /\ ~(is_strict(raw_token_at(cp_i)) /\ name_at_cursor \in DOMAIN sheet_lookup_of(RosterNames))
    /\ Len(calls) < MaxCalls
    /\ LET name        == name_at_cursor
           suggestions == correct(vocab, name)
       IN  \E resolution \in Answers(name, suggestions, prev_token_of, next_token_of) :
              LET after == apply_resolution(scan_state, name, prev_token_of, next_token_of,
                                            resolution)
              IN  /\ calls' = Append(calls,
                                     [name |-> name, suggestions |-> suggestions,
                                      line_text |-> line_text_of,
                                      prev_token |-> prev_token_of,
                                      next_token |-> next_token_of,
                                      prev_line_raw |-> line_map_get(line_index - 1),
                                      next_line_raw |-> line_map_get(line_index + 1),
                                      line_index |-> line_index,
                                      resolution |-> resolution])
                  /\ name_tokens' = after.name_tokens
                  /\ cp_i' = after.i
                  /\ last_appended_token' = after.last
                  /\ actual_names' = after.actual_names
                  /\ cp_aliases' = after.aliases
                  /\ vocab' = after.vocab
                  /\ discard' = after.discard
                  /\ name_aliases_file' = after.file
    /\ UNCHANGED varsNotScan

\* workflow.py:43-46
EventEntry(name, delta) == [name |-> name, delta |-> delta]

\* workflow.py:49-55
EventRecord(event_time, boss, points, entries, source_line) ==
    [event_time |-> event_time, boss |-> boss, points |-> points, entries |-> entries,
     source_line |-> source_line]

\* workflow.py:333-342 : the two shapes in which "not" subtracts
not_at_1(names) == in_seq("not", names) /\ Len(names) >= 3 /\ names[2] = "not"
not_at_0(names) == in_seq("not", names) /\ ~not_at_1(names) /\ Len(names) >= 2 /\ names[1] = "not"

\* workflow.py:345 : cleaned, the set the names are collapsed to
cleaned_of(names) ==
    IF not_at_1(names) \/ not_at_0(names) THEN {}
    ELSE {names[k] : k \in {j \in 1..Len(names) : names[j] # "not"}}

\* dkp_count[name] = dkp_count.get(name, 0) + delta
add_points(items, name, delta) == items_set(items, name, items_get(items, name, 0) + delta)

RECURSIVE add_each(_, _, _)
add_each(items, names, delta) ==
    IF names = <<>> THEN items
    ELSE add_each(add_points(items, Head(names), delta), Tail(names), delta)

\* workflow.py:332-349 : the ledger after the line; order is the order in
\* which the set cleaned is iterated
ledger_keeping_duplicates(items, names, points, order) ==
    IF not_at_1(names)
    THEN add_each(add_points(items, names[1], points), SubSeq(names, 3, Len(names)), 0 - points)
    ELSE IF not_at_0(names)
    THEN add_each(items, Tail(names), 0 - points)
    ELSE add_each(items, SelectSeq(names, LAMBDA n : n # "not"), points)
ledger(items, names, points, order) ==
    IF not_at_1(names)
    THEN add_each(add_points(items, names[1], points), SubSeq(names, 3, Len(names)), 0 - points)
    ELSE IF not_at_0(names)
    THEN add_each(items, Tail(names), 0 - points)
    ELSE add_each(items, order, points)

\* workflow.py:351-364
entries_of(names, points, order) ==
    IF not_at_1(names)
    THEN <<EventEntry(names[1], points)>>
         \o [k \in 1..Len(SelectSeq(SubSeq(names, 3, Len(names)), LAMBDA n : n # "not")) |->
                EventEntry(SelectSeq(SubSeq(names, 3, Len(names)), LAMBDA n : n # "not")[k],
                           0 - points)]
    ELSE IF not_at_0(names)
    THEN [k \in 1..Len(SelectSeq(Tail(names), LAMBDA n : n # "not")) |->
             EventEntry(SelectSeq(Tail(names), LAMBDA n : n # "not")[k], 0 - points)]
    ELSE [k \in 1..Len(order) |-> EventEntry(order[k], points)]

\* workflow.py:332-369 : the while loop is over; the ledger, the event
\* entries and boss_set
ScoreLine ==
    /\ pc = "scan" /\ cp_i >= Len(name_tokens)
    /\ \E order \in Orderings(cleaned_of(actual_names)) :
          LET points  == points_of_line.some
              entries == entries_of(actual_names, points, order)
          IN  /\ dkp_count' = ledger(dkp_count, actual_names, points, order)
              /\ event_entries' = entries
              /\ boss_set' = IF \E k \in 1..Len(entries) : entries[k].delta > 0
                             THEN boss_set \cup {boss_key_of_line}
                             ELSE boss_set
    /\ entry_pos' = 1
    /\ pc' = "count"
    /\ UNCHANGED <<raw_lines, window, cp_lines, formatted_lines, cp_errors, line_pos,
                   name_tokens, cp_i, last_appended_token, actual_names, cp_aliases, vocab,
                   discard, name_aliases_file, boss_counts, cp_events, calls, result>>

\* workflow.py:370-383 : one iteration of the loop over event_entries
count_entry_keeping_zero(counts_by_name, entry, boss_key) ==
    IF entry.name = "" THEN counts_by_name
    ELSE LET counts  == dict_get(counts_by_name, entry.name, EmptyDict)
             current == dict_get(counts, boss_key, 0)
         IN  IF entry.delta > 0
             THEN dict_set(counts_by_name, entry.name, dict_set(counts, boss_key, current + 1))
             ELSE IF entry.delta < 0 /\ current > 0
             THEN dict_set(counts_by_name, entry.name, dict_set(counts, boss_key, current - 1))
             ELSE dict_set(counts_by_name, entry.name, counts)
count_entry(counts_by_name, entry, boss_key) ==
    IF entry.name = "" THEN counts_by_name
    ELSE LET counts  == dict_get(counts_by_name, entry.name, EmptyDict)
             current == dict_get(counts, boss_key, 0)
         IN  IF entry.delta > 0
             THEN dict_set(counts_by_name, entry.name, dict_set(counts, boss_key, current + 1))
             ELSE IF entry.delta < 0 /\ current > 0
             THEN IF current - 1 > 0
                  THEN dict_set(counts_by_name, entry.name,
                                dict_set(counts, boss_key, current - 1))
                  ELSE IF DOMAIN dict_pop(counts, boss_key) = {}
                       THEN dict_pop(counts_by_name, entry.name)
                       ELSE dict_set(counts_by_name, entry.name, dict_pop(counts, boss_key))
             ELSE dict_set(counts_by_name, entry.name, counts)

CountEntry ==
    /\ pc = "count" /\ entry_pos <= Len(event_entries)
    /\ boss_counts' = count_entry(boss_counts, event_entries[entry_pos], boss_key_of_line)
    /\ entry_pos' = entry_pos + 1
    /\ UNCHANGED <<raw_lines, window, pc, cp_lines, formatted_lines, cp_errors, line_pos,
                   name_tokens, cp_i, last_appended_token, actual_names, cp_aliases, vocab,
                   discard, name_aliases_file, dkp_count, boss_set, cp_events, event_entries,
                   calls, result>>

\* workflow.py:385-395 : the event of the line, then the next line
EmitEvent ==
    /\ pc = "count" /\ entry_pos > Len(event_entries)
    /\ LET event_time == get_date(line_text_raw)
       IN  cp_events' = IF event_time # None /\ event_entries # <<>>
                        THEN Append(cp_events,
                                    EventRecord(event_time.some, boss_key_of_line,
                                                points_of_line.some, event_entries,
                                                line_text_raw))
                        ELSE cp_events
    /\ line_pos' = line_pos + 1
    /\ pc' = "line"
    /\ UNCHANGED <<raw_lines, window, cp_lines, formatted_lines, cp_errors, name_tokens, cp_i,
                   last_appended_token, actual_names, cp_aliases, vocab, discard,
                   name_aliases_file, dkp_count, boss_counts, boss_set, event_entries,
                   entry_pos, calls, result>>

\* workflow.py:397-398
totals_of(items) ==
    sort_by(LAMBDA item : lower(item[1]), SelectSeq(items, LAMBDA item : item[2] > 0))

\* workflow.py:397-408 : the for loop is over
Finish ==
    /\ pc = "line" /\ line_pos > Len(formatted_lines)
    /\ \E order \in Orderings(boss_set) :
          result' = CalculationResult(totals_of(dkp_count), build_sanity_check(cp_lines),
                                      cp_errors, boss_counts,
                                      sort_by(LAMBDA b : lower(b), order), cp_events)
    /\ pc' = "done"
    /\ UNCHANGED <<raw_lines, window, cp_lines, formatted_lines, cp_errors, line_pos,
                   name_tokens, cp_i, last_appended_token, actual_names, cp_aliases, vocab,
                   discard, name_aliases_file, dkp_count, boss_counts, boss_set, cp_events,
                   event_entries, entry_pos, calls>>

(***************************************************************************)
(* Timer files for validate_lines: a line of ShapeLines, alone or after a  *)
(* known line                                                              *)
(***************************************************************************)
InitValidate ==
    /\ raw_lines \in {<<shape>> : shape \in ShapeLines}
                     \cup {<<known, shape>> : known \in KnownLines, shape \in ShapeLines}
    /\ window = [use_all_entries |-> TRUE, start_date |-> None, end_date |-> None]
    /\ pc = "preprocess"
    /\ cp_lines = <<>>
    /\ formatted_lines = <<>>
    /\ cp_errors = NoResult
    /\ line_pos = 0
    /\ name_tokens = <<>>
    /\ cp_i = 0
    /\ last_appended_token = NoneVal
    /\ actual_names = <<>>
    /\ cp_aliases = EmptyDict
    /\ vocab = EmptyDict
    /\ discard = {}
    /\ name_aliases_file = NameAliases
    /\ dkp_count = <<>>
    /\ boss_counts = EmptyDict
    /\ boss_set = {}
    /\ cp_events = <<>>
    /\ event_entries = <<>>
    /\ entry_pos = 0
    /\ calls = <<>>
    /\ result = NoResult

(***************************************************************************)
(* Runs of calculate_points over a name_aliases.json that may hold an      *)
(* alias for the lowercase form of a roster name                           *)
(***************************************************************************)
\* aliases.py:27-36 : the file as add_name_alias leaves it, the second with
\* the alias "ab ba" persisted by a run whose roster did not hold Ab Ba
AliasFiles == {NameAliases, NameAliases \o << <<"ab ba", "Alice">> >>}

InitStrict ==
    /\ raw_lines \in {<<line>> : line \in KnownLines \cup UnknownLines \cup RegisterLines}
    /\ window = [use_all_entries |-> TRUE, start_date |-> None, end_date |-> None]
    /\ pc = "preprocess"
    /\ cp_lines = <<>>
    /\ formatted_lines = <<>>
    /\ cp_errors = NoResult
    /\ line_pos = 0
    /\ name_tokens = <<>>
    /\ cp_i = 0
    /\ last_appended_token = NoneVal
    /\ actual_names = <<>>
    /\ cp_aliases = EmptyDict
    /\ vocab = EmptyDict
    /\ discard = {}
    /\ name_aliases_file \in AliasFiles
    /\ dkp_count = <<>>
    /\ boss_counts = EmptyDict
    /\ boss_set = {}
    /\ cp_events = <<>>
    /\ event_entries = <<>>
    /\ entry_pos = 0
    /\ calls = <<>>
    /\ result = NoResult

(***************************************************************************)
(* points.py : get_points called on a loaded PointsStore                   *)
(***************************************************************************)
MaxQueries == 2       \* get_points calls made on one store

\* points.py:10-14
Tier(level, point_5, point_6) == [level |-> level, point_5 |-> point_5, point_6 |-> point_6]

\* the tier lists of points.json: one tier, two tiers listed by descending
\* level, the same two listed by ascending level
TierLists == { <<Tier(10, 1, 2)>>,
               <<Tier(20, 3, 4), Tier(10, 1, 2)>>,
               <<Tier(10, 1, 2), Tier(20, 3, 4)>> }

\* points.py:33-66 : the points.json files of the model: the scalar keys
\* alone, and with a tier list under "legacy" or under "/legacy"
PointsFiles ==
    {PointsTable}
    \cup {PointsTable \o << [key |-> key, value |-> ListValue(tiers)] >> :
             key \in {"legacy", "/legacy"}, tiers \in TierLists}

\* the text of a legacy token
LegacyLevels == {5, 15, 25}
legacy_token(slash, level, star) == slash \o "legacy" \o ToString(level) \o "." \o star

\* the tokens get_points is asked about: the scalar bosses in both spellings,
\* with each modifier that changes the points, and legacy tokens below,
\* between and above the tier levels
BossTokens ==
    {"boss1", "/boss1", "boss2", "/boss2"}
    \cup {boss \o "(" \o modifier \o ")" :
             boss \in {"boss1", "boss2"},
             modifier \in {"brucybonus", "double", "doublepoints", "fail"}}
    \cup {legacy_token("", level, star) : level \in LegacyLevels, star \in {"5", "6"}}
    \cup {legacy_token("/", 25, "5")}

\* points.py:20-27 : the store after __init__
InitPoints ==
    /\ ps_points_map \in PointsFiles
    /\ ps_calls = <<>>

\* points.py:92-166 : one call of get_points
GetPoints ==
    /\ Len(ps_calls) < MaxQueries
    /\ \E boss \in BossTokens :
          ps_calls' = Append(ps_calls,
                             [boss |-> boss, points |-> get_points(ps_points_map, Prios, boss)])
    /\ UNCHANGED ps_points_map

(***************************************************************************)
(* sanitise.py : slice_by_date called on a chronologically ordered list    *)
(***************************************************************************)
MaxSliceLines == 4    \* lines of the list handed to slice_by_date

\* a line of each date of DateTexts, by the instant of the date
DatedLine(t) == DateTexts[t + 1].text \o ":boss1 alice"

\* sanitise.py:118-131 : the lines are numbered in the order of the file
numbered(times) == [k \in 1..Len(times) |-> <<k, DatedLine(times[k])>>]

\* the lists of dated lines in chronological order
OrderedLines ==
    {numbered(times) : times \in {ts \in SeqsUpTo(WallTimes, MaxSliceLines) :
                                     \A k \in 1..(Len(ts) - 1) : ts[k] <= ts[k + 1]}}

\* sanitise.py:164 : start and end, both naive or both aware, end after start
SliceWindows == {w \in [start : Datetimes, end : Datetimes] :
                    w.start.aware = w.end.aware /\ w.start.t < w.end.t}

InitSlice ==
    /\ sl_lines \in OrderedLines
    /\ sl_window \in SliceWindows
    /\ sl_zone \in LocalOffsets
    /\ sl_sliced = NoResult

\* sanitise.py:164-198
Slice ==
    /\ sl_sliced = NoResult
    /\ sl_sliced' = Some(slice_by_date(sl_lines, sl_window.start, sl_window.end, sl_zone))
    /\ UNCHANGED <<sl_lines, sl_window, sl_zone>>

(***************************************************************************)
(* Specifications                                                          *)
(***************************************************************************)
IdleRuns == InitRuns
IdleSan == san_line = "" /\ san_aliases = <<>> /\ sanitized = <<>>
IdleScore ==
    /\ raw_lines = <<>> /\ window = [use_all_entries |-> TRUE, start_date |-> None, end_date |-> None]
    /\ pc = "idle" /\ cp_lines = <<>> /\ formatted_lines = <<>> /\ cp_errors = NoResult
    /\ line_pos = 0 /\ name_tokens = <<>> /\ cp_i = 0 /\ last_appended_token = NoneVal
    /\ actual_names = <<>> /\ cp_aliases = EmptyDict /\ vocab = EmptyDict /\ discard = {}
    /\ name_aliases_file = NameAliases /\ dkp_count = <<>> /\ boss_counts = EmptyDict
    /\ boss_set = {} /\ cp_events = <<>> /\ event_entries = <<>> /\ entry_pos = 0
    /\ calls = <<>> /\ result = NoResult

IdlePoints == ps_points_map = PointsTable /\ ps_calls = <<>>
IdleSlice == sl_lines = <<>> /\ sl_window = NoResult /\ sl_zone = 0 /\ sl_sliced = NoResult

StartRuns == InitRuns /\ IdleSan /\ IdleScore /\ IdlePoints /\ IdleSlice
NextRuns == SaveRun /\ UNCHANGED <<varsSan, varsScore, varsPoints, varsSlice>>
SpecRuns == StartRuns /\ [][NextRuns]_vars

StartSan == InitSan /\ IdleRuns /\ IdleScore /\ IdlePoints /\ IdleSlice
NextSan == Sanitize /\ UNCHANGED <<varsRuns, varsScore, varsPoints, varsSlice>>
SpecSan == StartSan /\ [][NextSan]_vars

StartScore == InitScore /\ IdleRuns /\ IdleSan /\ IdlePoints /\ IdleSlice
NextScore ==
    \/ Preprocess /\ UNCHANGED <<varsRuns, varsSan, varsPoints, varsSlice>>
    \/ Validate /\ UNCHANGED <<varsRuns, varsSan, varsPoints, varsSlice>>
    \/ Gate /\ UNCHANGED <<varsRuns, varsSan, varsPoints, varsSlice>>
    \/ StartLine /\ UNCHANGED <<varsRuns, varsSan, varsPoints, varsSlice>>
    \/ ScanMarker /\ UNCHANGED <<varsRuns, varsSan, varsPoints, varsSlice>>
    \/ ScanNot /\ UNCHANGED <<varsRuns, varsSan, varsPoints, varsSlice>>
    \/ ScanSkip /\ UNCHANGED <<varsRuns, varsSan, varsPoints, varsSlice>>
    \/ ScanAlias /\ UNCHANGED <<varsRuns, varsSan, varsPoints, varsSlice>>
    \/ ScanStrict /\ UNCHANGED <<varsRuns, varsSan, varsPoints, varsSlice>>
    \/ ScanCallback /\ UNCHANGED <<varsRuns, varsSan, varsPoints, varsSlice>>
    \/ ScoreLine /\ UNCHANGED <<varsRuns, varsSan, varsPoints, varsSlice>>
    \/ CountEntry /\ UNCHANGED <<varsRuns, varsSan, varsPoints, varsSlice>>
    \/ EmitEvent /\ UNCHANGED <<varsRuns, varsSan, varsPoints, varsSlice>>
    \/ Finish /\ UNCHANGED <<varsRuns, varsSan, varsPoints, varsSlice>>
SpecScore == StartScore /\ [][NextScore]_vars

StartStrict == InitStrict /\ IdleRuns /\ IdleSan /\ IdlePoints /\ IdleSlice
SpecStrict == StartStrict /\ [][NextScore]_vars

\* workflow.py:164-330 : one iteration of the while loop
ScanLoop ==
    /\ \/ ScanMarker \/ ScanNot \/ ScanSkip \/ ScanAlias \/ ScanStrict \/ ScanCallback
    /\ UNCHANGED <<varsRuns, varsSan, varsPoints, varsSlice>>

\* the while loop runs on: an iteration that can be taken is taken
SpecScan == StartScore /\ [][NextScore]_vars /\ WF_vars(ScanLoop)

StartPoints == InitPoints /\ IdleRuns /\ IdleSan /\ IdleScore /\ IdleSlice
NextPoints == GetPoints /\ UNCHANGED <<varsRuns, varsSan, varsScore, varsSlice>>
SpecPoints == StartPoints /\ [][NextPoints]_vars

StartSlice == InitSlice /\ IdleRuns /\ IdleSan /\ IdleScore /\ IdlePoints
NextSlice == Slice /\ UNCHANGED <<varsRuns, varsSan, varsScore, varsPoints>>
SpecSlice == StartSlice /\ [][NextSlice]_vars

StartValidate == InitValidate /\ IdleRuns /\ IdleSan /\ IdlePoints /\ IdleSlice
NextValidate ==
    \/ Preprocess /\ UNCHANGED <<varsRuns, varsSan, varsPoints, varsSlice>>
    \/ Validate /\ UNCHANGED <<varsRuns, varsSan, varsPoints, varsSlice>>
SpecValidate == StartValidate /\ [][NextValidate]_vars

(***************************************************************************)
(* Properties of the run store                                             *)
(***************************************************************************)
StoredRuns == load_run_store(file).runs
StoredEvents == load_run_store(file).events

\* the event's instant lies in the closed window of the run
TimeInsideRun(event, meta) ==
    /\ event.event_time_utc # ""
    /\ _parse_iso(meta.start_utc) <= _parse_iso(event.event_time_utc)
    /\ _parse_iso(event.event_time_utc) <= _parse_iso(meta.end_utc)

\* the event with its two supersession flags blanked
Payload(event) == [event EXCEPT !.active = TRUE, !.replaced_by = NoneVal]

\* C2: every save_run step sets active=false and replaced_by=run_meta.run_id on
\* every stored event that was active before the call and whose event_time lies
\* in the inclusive window [run_meta.start, run_meta.end].
C2_SupersedesActiveInWindow ==
    [][LET old  == StoredEvents
           new  == load_run_store(file').events
           meta == Last(load_run_store(file').runs)
       IN  \A i \in 1..Len(old) :
              (old[i].active /\ TimeInsideRun(old[i], meta))
                 => (new[i].active = FALSE /\ new[i].replaced_by = meta.run_id)]_varsRuns

\* C2 witness: the last save_run superseded an event lying exactly on the end of
\* its window.
C2_Witness ==
    /\ file.kind = "json"
    /\ \E i \in 1..Len(StoredEvents) :
          /\ ~StoredEvents[i].active
          /\ StoredEvents[i].replaced_by = Last(StoredRuns).run_id
          /\ StoredEvents[i].event_time_utc = Last(StoredRuns).end_utc
          /\ Last(StoredRuns).start_utc # Last(StoredRuns).end_utc

\* C3: every save_run step leaves unchanged every stored event that is not an
\* active event inside the new run's window: events outside the window and
\* already-superseded events (with their replaced_by) keep their value.
C3_OthersUntouched ==
    [][LET old  == StoredEvents
           new  == load_run_store(file').events
           meta == Last(load_run_store(file').runs)
       IN  \A i \in 1..Len(old) :
              ~(old[i].active /\ TimeInsideRun(old[i], meta)) => new[i] = old[i]]_varsRuns

\* C3 witness: after the last save_run the store holds an event superseded by an
\* earlier run although it lies inside the last run's window, and an active
\* event of an earlier run outside that window.
C3_Witness ==
    /\ file.kind = "json"
    /\ \E i \in 1..Len(StoredEvents) :
          /\ ~StoredEvents[i].active
          /\ StoredEvents[i].replaced_by # Last(StoredRuns).run_id
          /\ TimeInsideRun(StoredEvents[i], Last(StoredRuns))
    /\ \E j \in 1..Len(StoredEvents) :
          /\ StoredEvents[j].active
          /\ StoredEvents[j].run_id # Last(StoredRuns).run_id
          /\ ~TimeInsideRun(StoredEvents[j], Last(StoredRuns))

\* C4: across save_run steps the store is append-only: the runs and events
\* stored before the step are still there, at the same positions, and every
\* event field other than active and replaced_by keeps its value.
C4_AppendOnly ==
    [][LET old == load_run_store(file)
           new == load_run_store(file')
       IN  /\ Len(new.runs) >= Len(old.runs)
           /\ Len(new.events) >= Len(old.events)
           /\ \A i \in 1..Len(old.runs) : new.runs[i] = old.runs[i]
           /\ \A i \in 1..Len(old.events) :
                 Payload(new.events[i]) = Payload(old.events[i])]_varsRuns

\* C4 witness: a store built by several save_run calls that holds events of
\* two runs, the earlier one superseded.
C4_Witness ==
    /\ file.kind = "json"
    /\ Len(StoredRuns) >= 2
    /\ \E i, j \in 1..Len(StoredEvents) :
          /\ i < j
          /\ ~StoredEvents[i].active
          /\ StoredEvents[j].active
          /\ StoredEvents[i].run_id # StoredEvents[j].run_id

\* the positions in the runs list of the runs with the id
run_positions(run_id) == {j \in 1..Len(StoredRuns) : StoredRuns[j].run_id = run_id}

\* the runs saved after the run that contributed the event
later_runs(event) ==
    {k \in 1..Len(StoredRuns) : \E j \in run_positions(event.run_id) : j < k}

\* C27: after any sequence of save_run calls no active event has an
\* event_time inside the window of a run saved after the run that
\* contributed the event
C27_LatestRunWins ==
    \A i \in 1..Len(StoredEvents) :
        StoredEvents[i].active
            => \A k \in later_runs(StoredEvents[i]) :
                   ~TimeInsideRun(StoredEvents[i], StoredRuns[k])

\* an event of the first run has stayed active through two later runs, one
\* of which superseded another event
C27_Witness ==
    /\ file.kind = "json"
    /\ Len(StoredRuns) = 3
    /\ \E i, j \in 1..Len(StoredEvents) :
          /\ StoredEvents[i].active
          /\ StoredEvents[i].run_id = StoredRuns[1].run_id
          /\ ~StoredEvents[j].active

\* C28: every stored event is active exactly when its replaced_by is null,
\* and the replaced_by of an inactive event is the id of a run of the runs
\* list saved after the event's own run
C28_ActiveIffNotReplaced ==
    \A i \in 1..Len(StoredEvents) :
        /\ StoredEvents[i].active <=> StoredEvents[i].replaced_by = NoneVal
        /\ ~StoredEvents[i].active
               => \E k \in later_runs(StoredEvents[i]) :
                      StoredRuns[k].run_id = StoredEvents[i].replaced_by

\* the store holds an event of the first run replaced by the third run, the
\* second run having left it active
C28_Witness ==
    /\ file.kind = "json"
    /\ Len(StoredRuns) = 3
    /\ \E i \in 1..Len(StoredEvents) :
          /\ StoredEvents[i].run_id = StoredRuns[1].run_id
          /\ ~StoredEvents[i].active
          /\ StoredEvents[i].replaced_by = StoredRuns[3].run_id

\* C29: a run never supersedes its own events: right after save_run every
\* event passed in the call is stored active with replaced_by null, also
\* when its event_time lies inside the window of the run
C29_OwnEventsStayActive ==
    [][LET old  == StoredEvents
           new  == load_run_store(file').events
           meta == Last(load_run_store(file').runs)
       IN  \A i \in (Len(old) + 1)..Len(new) :
              /\ new[i].run_id = meta.run_id
              /\ new[i].active
              /\ new[i].replaced_by = NoneVal]_varsRuns

\* the run saved last passed an event lying inside its own window, while it
\* superseded an event of an earlier run
C29_Witness ==
    /\ file.kind = "json"
    /\ StoredEvents # <<>>
    /\ Last(StoredEvents).run_id = Last(StoredRuns).run_id
    /\ TimeInsideRun(Last(StoredEvents), Last(StoredRuns))
    /\ Last(StoredEvents).active
    /\ \E i \in 1..Len(StoredEvents) :
          /\ ~StoredEvents[i].active
          /\ StoredEvents[i].replaced_by = Last(StoredRuns).run_id

(***************************************************************************)
(* Properties of calculate_points                                          *)
(***************************************************************************)
ErrorCategories == {"date_lines", "boss_lines", "at_lines", "single_char_lines",
                    "incorrect_not_lines", "ambiguous_not_boss_lines", "general_lines"}

\* validate_lines has returned
Validated == pc \notin {"idle", "preprocess", "validate"}
AnyErrorCategory == \E category \in ErrorCategories : cp_errors[category] # <<>>

\* C1: once validate_lines has reported a non-empty error category, the
\* resolve callback is never invoked, no line is scored, and calculate_points
\* returns empty totals, boss_counts, boss_list and events.
C1_ErrorsRejectBatch ==
    (Validated /\ AnyErrorCategory)
        => /\ calls = <<>>
           /\ pc \in {"gate", "done"}
           /\ pc = "done" => /\ result.totals = <<>>
                             /\ DOMAIN result.boss_counts = {}
                             /\ result.boss_list = <<>>
                             /\ result.events = <<>>

\* a rejected batch one of whose lines holds a name only the callback resolves
C1_Witness ==
    /\ pc = "done"
    /\ AnyErrorCategory
    /\ \E k \in 1..Len(raw_lines) : raw_lines[k] \in UnknownLines
    /\ result.totals = <<>>

RECURSIVE sum_deltas(_, _)
sum_deltas(entries, name) ==
    IF entries = <<>> THEN 0
    ELSE (IF Head(entries).name = name THEN Head(entries).delta ELSE 0)
         + sum_deltas(Tail(entries), name)

\* the entries of all emitted events
emitted_entries(events) == flat_map(LAMBDA event : event.entries, events)

\* the totals reported for the name
reported_totals(totals, name) ==
    {k \in 1..Len(totals) : totals[k][1] = name}

\* C5: for an error-free batch and every participant name, the sum of the
\* name's deltas over the entries of all emitted events is the total reported
\* for the name when the sum is positive, and the name is absent from totals
\* when the sum is zero or negative.
C5_TotalsAreEntrySums ==
    (pc = "done" /\ ~AnyErrorCategory)
        => \A name \in {emitted_entries(result.events)[k].name :
                           k \in 1..Len(emitted_entries(result.events))}
                       \cup {result.totals[k][1] : k \in 1..Len(result.totals)} :
              IF sum_deltas(emitted_entries(result.events), name) > 0
              THEN /\ Cardinality(reported_totals(result.totals, name)) = 1
                   /\ \A k \in reported_totals(result.totals, name) :
                         result.totals[k][2] = sum_deltas(emitted_entries(result.events), name)
              ELSE reported_totals(result.totals, name) = {}

occurrences(name, names) == Len(SelectSeq(names, LAMBDA n : n = name))

\* what the rule of C6 gives the participant for the name list L and points p
rule_delta(name, L, p) ==
    IF Len(L) >= 3 /\ L[2] = "not"
    THEN (IF L[1] = name THEN p ELSE 0) - p * occurrences(name, SubSeq(L, 3, Len(L)))
    ELSE IF Len(L) >= 2 /\ L[1] = "not"
    THEN 0 - p * occurrences(name, Tail(L))
    ELSE IF in_seq(name, L) THEN p ELSE 0

\* C6: scoring a line with boss points p and resolved name list L changes the
\* ledger, and fills the entries of the line's event, by the rule: `not` at
\* index 1 and len(L) >= 3 gives L[0] +p and every later name -p; else `not` at
\* index 0 and len(L) >= 2 gives every later name -p; otherwise every distinct
\* name of L gets +p once.  (`not` itself is the marker, not a participant.)
C6_LedgerRule ==
    [][(pc = "scan" /\ pc' = "count")
          => \A name \in ({actual_names[k] : k \in 1..Len(actual_names)}
                          \cup {dkp_count[k][1] : k \in 1..Len(dkp_count)}
                          \cup {dkp_count'[k][1] : k \in 1..Len(dkp_count')}
                          \cup {event_entries'[k].name : k \in 1..Len(event_entries')})
                         \ {"not"} :
                /\ items_get(dkp_count', name, 0) - items_get(dkp_count, name, 0)
                      = rule_delta(name, actual_names, points_of_line.some)
                /\ sum_deltas(event_entries', name)
                      = rule_delta(name, actual_names, points_of_line.some)]_vars

\* a line without `not` that names a participant twice has been scored
C6_Witness ==
    /\ pc = "count"
    /\ ~in_seq("not", actual_names)
    /\ \E j, k \in 1..Len(actual_names) : j < k /\ actual_names[j] = actual_names[k]
    /\ \E k \in 1..Len(dkp_count) : dkp_count[k][2] > 0

\* C7: after scoring any sequence of lines, boss_counts holds no participant
\* mapped to an empty set of bosses.
C7_NoEmptyParticipant ==
    pc \in {"line", "done"}
        => \A name \in DOMAIN boss_counts : DOMAIN boss_counts[name] # {}

\* C8: at every point of scoring, every (participant, boss) counter stored in
\* boss_counts is at least 1.
C8_CountersAtLeastOne ==
    \A name \in DOMAIN boss_counts :
        \A boss \in DOMAIN boss_counts[name] : boss_counts[name][boss] >= 1

\* a negative contribution has just decremented a counter that is still stored
C8_Witness ==
    /\ pc = "count"
    /\ entry_pos > 1
    /\ event_entries[entry_pos - 1].delta < 0
    /\ event_entries[entry_pos - 1].name \in DOMAIN boss_counts
    /\ boss_key_of_line \in DOMAIN boss_counts[event_entries[entry_pos - 1].name]

\* the callback was invoked in this step
callback_asked == Len(calls') = Len(calls) + 1

\* C14: once the callback returns None for a token, the token is in discard
\* for the rest of the run: the callback is never invoked with it again, at
\* any later position of any line, and where the cursor stands on it no name
\* is appended
C14_DiscardedForTheRun ==
    [][/\ (callback_asked /\ Last(calls').resolution = None)
              => Last(calls').name \in discard'
       /\ \A token \in discard :
              /\ token \in discard'
              /\ callback_asked => Last(calls').name # token
              /\ (pc = "scan" /\ cp_i < Len(name_tokens) /\ name_at_cursor = token)
                     => actual_names' = actual_names /\ ~callback_asked]_vars

\* the token the callback discarded on an earlier line has just been
\* skipped on this line
C14_Witness ==
    /\ pc = "scan"
    /\ Len(calls) = 1
    /\ calls[1].resolution = None
    /\ calls[1].line_index # line_index
    /\ cp_i >= 1
    /\ unstrict(raw_token_at(cp_i - 1)) = calls[1].name
    /\ calls[1].name \in discard

\* the calls the callback answered with add_new
add_new_calls ==
    {i \in 1..Len(calls) : calls[i].resolution # None /\ calls[i].resolution.add_new}

\* the tokens the answer of call i registered: the token asked about and the
\* lowercase form of the new name
registered_by(i) == {calls[i].name, lower(calls[i].resolution.names[1])}

\* a later answer registered another name under the token
registered_anew(i, token) ==
    \E j \in add_new_calls :
        j > i /\ token \in registered_by(j)
              /\ calls[j].resolution.names[1] # calls[i].resolution.names[1]

\* the step resolves the token under the cursor to the name, the callback
\* not being invoked
resolves_to(new_name) ==
    ~callback_asked /\ actual_names' = Append(actual_names, new_name)

C18_StrictBypassesAliases ==
    [][(/\ pc = "scan" /\ cp_i < Len(name_tokens)
        /\ is_strict(raw_token_at(cp_i))
        /\ name_at_cursor \in DOMAIN sheet_lookup_of(RosterNames)
        /\ name_at_cursor \notin discard)
           => resolves_to(sheet_lookup_of(RosterNames)[name_at_cursor])]_vars

\* the call the callback has just answered
answered == Last(calls')

\* the callback has just answered on the plain path: a Resolution with
\* neither add_new nor reprocess
plain_answer ==
    /\ callback_asked
    /\ answered.resolution # None
    /\ ~answered.resolution.add_new
    /\ ~answered.resolution.reprocess

\* the alias-map entry of the token is what it was
alias_entry_unchanged(name) ==
    /\ name \in DOMAIN cp_aliases' <=> name \in DOMAIN cp_aliases
    /\ name \in DOMAIN cp_aliases => cp_aliases'[name] = cp_aliases[name]

\* C22: on the plain path the original token is mapped in the alias map only
\* if cache_original is set and exactly one name was returned; otherwise the
\* entry of the original token is left unchanged
C22_CachedOnlyForOneName ==
    [][plain_answer
           => \/ /\ answered.resolution.cache_original
                 /\ Len(answered.resolution.names) = 1
              \/ alias_entry_unchanged(answered.name)]_vars

\* the position of the first "not" among the tokens, 0 when there is none
RECURSIVE first_not(_, _)
first_not(tokens, k) ==
    IF k > Len(tokens) THEN 0
    ELSE IF tokens[k] = "not" THEN k
    ELSE first_not(tokens, k + 1)

\* the participants the alias map gives the tokens at the positions
named_at(tokens, positions) ==
    {cp_aliases[tokens[k]] : k \in {j \in positions : tokens[j] \in DOMAIN cp_aliases}}

\* the participants with a token after the "not" of the validated line and
\* none before it
after_not_only ==
    LET tokens == Tail(tokens_of_line)
        at     == first_not(tokens, 1)
    IN  IF at = 0 THEN {}
        ELSE named_at(tokens, (at + 1)..Len(tokens)) \ named_at(tokens, 1..(at - 1))

\* C23: a participant whose token stands after the "not" of a validated
\* line receives no positive delta from the line, whatever the callback
\* answers for the tokens before the "not"
C23_AfterNotNeverPositive ==
    pc = "count" =>
        \A k \in 1..Len(event_entries) :
            event_entries[k].delta > 0 => event_entries[k].name \notin after_not_only

\* the token would reach the callback: no guard of workflow.py:173-196 takes it
needs_callback(raw_token, aliases, discarded) ==
    /\ unstrict(raw_token) \notin {MULTI_NOT_MARKER, "not"}
    /\ unstrict(raw_token) \notin discarded
    /\ Len(unstrict(raw_token)) > 1
    /\ ~(unstrict(raw_token) \in DOMAIN aliases /\ aliases[unstrict(raw_token)] # "")
    /\ ~(is_strict(raw_token) /\ unstrict(raw_token) \in DOMAIN sheet_lookup_of(RosterNames))

\* one more than the most names an answer carries: a reprocess answer puts
\* that many tokens in the place of one or two
ScanWeight ==
    1 + Len(CHOOSE pair \in SplitNames : \A other \in SplitNames : Len(other) <= Len(pair))

\* what is left of the scan: the tokens from the cursor on that need the
\* callback, then the tokens from the cursor on
scan_measure(tokens, i, aliases, discarded) ==
    Cardinality({k \in (i + 1)..Len(tokens) : needs_callback(tokens[k], aliases, discarded)})
        * ScanWeight
    + (Len(tokens) - i)

\* every name of the reprocess answer is, in lowercase, a roster name or a
\* key of the alias map
proper_answer ==
    (answered.resolution # None /\ answered.resolution.reprocess)
        => \A k \in 1..Len(answered.resolution.names) :
               lower(answered.resolution.names[k])
                   \in DOMAIN sheet_lookup_of(RosterNames) \cup DOMAIN cp_aliases

\* every iteration of the while loop brings the scan nearer to its end
\* unless the callback answers with a reprocess of an unknown name
C24_ScanDecreases ==
    [][(pc = "scan" /\ pc' = "scan" /\ (callback_asked => proper_answer))
           => scan_measure(name_tokens', cp_i', cp_aliases', discard')
                  < scan_measure(name_tokens, cp_i, cp_aliases, discard)]_vars

\* C24: the scan of every line terminates, provided every name of a
\* reprocess answer is, in lowercase, a roster name or an alias-map key:
\* each iteration then shortens what is left of the scan, the inserted
\* strict tokens resolve without the callback, and the cursor of a scan that
\* has begun reaches the end of the token buffer (or the scan uses up the
\* callback budget of the model)
C24_ScanTerminates ==
    /\ C24_ScanDecreases
    /\ (pc = "scan") ~> (cp_i >= Len(name_tokens) \/ Len(calls) >= MaxCalls)

\* the split answered with reprocess has been rescanned and the line scored
C24_Witness ==
    /\ pc = "count"
    /\ Len(calls) = 1
    /\ calls[1].resolution # None
    /\ calls[1].resolution.reprocess
    /\ calls[1].resolution.names = <<"Alice", "Bob">>
    /\ actual_names = <<"Alice", "Bob", "not", "Bob">>

\* every answer so far, the one just given included, carries a name
nonempty_answers ==
    \A k \in 1..Len(calls') :
        calls'[k].resolution # None => calls'[k].resolution.names # <<>>

\* the name an answer of the callback leaves last in actual_names
appended_last(call) ==
    IF call.resolution.add_new THEN call.resolution.names[1]
    ELSE dict_get(cp_aliases, lower(Last(call.resolution.names)),
                  Last(call.resolution.names))

\* the names the scan of this line can have appended for the token: its
\* alias, its roster name, the names the callback answered it with
appended_for(token) ==
    (IF alias_hit(token) THEN {cp_aliases[token]} ELSE {})
    \cup (IF token \in DOMAIN sheet_lookup_of(RosterNames)
          THEN {sheet_lookup_of(RosterNames)[token]} ELSE {})
    \cup {appended_last(calls[k]) :
             k \in {j \in 1..Len(calls) :
                       /\ calls[j].name = token
                       /\ calls[j].line_index = line_index
                       /\ calls[j].resolution # None
                       /\ ~calls[j].resolution.reprocess
                       /\ calls[j].resolution.names # <<>>}}

not_count(names) == Len(SelectSeq(names, LAMBDA n : n = "not"))

\* C25: provided every Resolution carries a name, a merge with the previous
\* token removes no "not" marker from actual_names: whenever the callback is
\* offered a previous token, the last element of actual_names is a name
\* appended for that token, and the answer leaves every marker in place
C25_MergePrevKeepsNot ==
    [][(callback_asked /\ nonempty_answers)
           => /\ answered.prev_token # ""
                  => /\ actual_names # <<>>
                     /\ Last(actual_names) # "not"
                     /\ Last(actual_names) \in appended_for(answered.prev_token)
              /\ not_count(actual_names') >= not_count(actual_names)]_vars

\* zed, offered its neighbour alice, has been merged with it: Alice was
\* taken back from actual_names
C25_Witness ==
    /\ pc = "scan"
    /\ Len(calls) = 1
    /\ calls[1].prev_token = "alice"
    /\ calls[1].resolution # None
    /\ calls[1].resolution.merge_with_prev
    /\ ~calls[1].resolution.reprocess
    /\ actual_names = <<"alicezed">>

\* C26: the word "not" is never treated as a participant: no event entry, no
\* total and no boss count of the result is attributed to the name "not"
C26_NotIsNoParticipant ==
    pc = "done" =>
        /\ \A k \in 1..Len(emitted_entries(result.events)) :
               emitted_entries(result.events)[k].name # "not"
        /\ \A k \in 1..Len(result.totals) : result.totals[k][1] # "not"
        /\ "not" \notin DOMAIN result.boss_counts

(***************************************************************************)
(* Properties of validate_lines                                            *)
(***************************************************************************)
\* the shapes C9 calls valid, by the length of the participant tokens and the
\* place of `not`
valid_shape(tokens, marker) ==
    IF marker
    THEN \/ (Len(tokens) >= 3 /\ tokens[2] = "not")
         \/ (Len(tokens) >= 2 /\ tokens[1] = "not")
    ELSE \/ (Len(tokens) = 3 /\ tokens[2] = "not")
         \/ (Len(tokens) = 2 /\ tokens[1] = "not")

\* the lines validate_lines was given whose boss resolves and whose
\* participant tokens contain `not`
lines_with_not ==
    {k \in 1..Len(cp_lines) :
        /\ has_segment(cp_lines[k][2])
        /\ Len(segment_tokens(cp_lines[k][2])) >= 2
        /\ get_points(PointsTable, Prios,
                      fold_boss(PointsTable, Prios, segment_tokens(cp_lines[k][2])).boss) # None
        /\ in_seq("not", fold_boss(PointsTable, Prios, segment_tokens(cp_lines[k][2])).full_line)}

lines_with_single ==
    {k \in 1..Len(formatted_lines) :
        \E j \in 2..Len(formatted_lines[k][2]) : Len(formatted_lines[k][2][j]) = 1}

\* C19: every FormattedLine validate_lines emits with a participant token of
\* length 1 is recorded in single_char_lines, so no such line is emitted
\* without a blocking error
C19_SingleCharRecorded ==
    Validated =>
        \A k \in lines_with_single :
            /\ in_seq(formatted_lines[k][1], cp_errors.single_char_lines)
            /\ errors_any(cp_errors)

\* C20: the first element of every FormattedLine validate_lines emits, on the
\* normal path and on the next-token fallback path, is a token get_points
\* resolves, and the scoring loop of calculate_points never records an
\* unresolved boss
C20_FirstElementResolves ==
    /\ Validated =>
           \A k \in 1..Len(formatted_lines) :
               get_points(PointsTable, Prios, formatted_lines[k][2][1]) # None
    /\ pc \in {"line", "scan", "score", "count"} => cp_errors.boss_lines = <<>>

\* the scoring loop stands on a line emitted by the fallback path
C20_Witness ==
    /\ pc = "scan"
    /\ raw_lines = <<"2 jan 2026 at 20:00:zzz boss1 x">>
    /\ formatted_lines = << <<1, <<"boss1", "zzz", "x">> >> >>
    /\ name_tokens = <<"zzz", "x">>

\* the boss and the remaining tokens of line k of cp_lines, the modifier and
\* the family suffixes folded
folded_line(k) == fold_boss(PointsTable, Prios, segment_tokens(cp_lines[k][2]))

\* the lines of at least two tokens whose boss token is unresolvable
unresolved_boss_lines ==
    {k \in 1..Len(cp_lines) :
        /\ has_segment(cp_lines[k][2])
        /\ Len(segment_tokens(cp_lines[k][2])) >= 2
        /\ get_points(PointsTable, Prios, folded_line(k).boss) = None}

\* the index is recorded under some boss of unknown_bosses
in_unknown_bosses(index) ==
    \E boss \in DOMAIN cp_errors.unknown_bosses : in_seq(index, cp_errors.unknown_bosses[boss])

\* the formatted lines emitted for the index
emitted_for(index) ==
    {j \in 1..Len(formatted_lines) : formatted_lines[j][1] = index}

\* C21: a line whose boss token is unresolvable, with no "not" among the
\* remaining tokens and a next token that resolves as a boss, is emitted as
\* [next token, boss token, the other tokens] and recorded in neither
\* boss_lines nor unknown_bosses; with "not" present it is recorded as
\* ambiguous-not-boss with an unknown-boss entry and is not emitted
C21_FallbackReinterprets ==
    Validated =>
        \A k \in unresolved_boss_lines :
            /\ (/\ ~in_seq("not", folded_line(k).full_line)
                /\ folded_line(k).full_line # <<>>
                /\ get_points(PointsTable, Prios, folded_line(k).full_line[1]) # None)
                   => /\ \E j \in emitted_for(cp_lines[k][1]) :
                             formatted_lines[j][2] =
                                 <<folded_line(k).full_line[1], folded_line(k).boss>>
                                 \o Tail(folded_line(k).full_line)
                      /\ ~in_seq(cp_lines[k][1], cp_errors.boss_lines)
                      /\ ~in_unknown_bosses(cp_lines[k][1])
            /\ in_seq("not", folded_line(k).full_line)
                   => /\ in_seq(cp_lines[k][1], cp_errors.ambiguous_not_boss_lines)
                      /\ folded_line(k).boss \in DOMAIN cp_errors.unknown_bosses
                      /\ in_seq(cp_lines[k][1], cp_errors.unknown_bosses[folded_line(k).boss])
                      /\ emitted_for(cp_lines[k][1]) = {}

\* the fallback line has been validated
C21_Witness ==
    /\ pc = "gate"
    /\ cp_lines = << <<1, "2 jan 2026 at 20:00:zzz boss1 x">> >>
    /\ formatted_lines = << <<1, <<"boss1", "zzz", "x">> >> >>
    /\ cp_errors.boss_lines = <<>>

\* how many times the index stands in the list
times_in(index, list) == Len(SelectSeq(list, LAMBDA x : x = index))

\* the indices of the lines given to validate_lines, of the lines it emitted
input_indices == [k \in 1..Len(cp_lines) |-> cp_lines[k][1]]
emitted_indices == [j \in 1..Len(formatted_lines) |-> formatted_lines[j][1]]

\* C30: validate_lines gives every input line exactly one structural
\* outcome: its index is emitted once in the formatted lines, or recorded
\* once in one of general_lines, boss_lines and ambiguous_not_boss_lines,
\* never both and never neither; the emitted lines keep the order and the
\* indices of the input
C30_OneStructuralOutcome ==
    Validated =>
        /\ \A k \in 1..Len(cp_lines) :
               times_in(cp_lines[k][1], emitted_indices)
               + times_in(cp_lines[k][1], cp_errors.general_lines)
               + times_in(cp_lines[k][1], cp_errors.boss_lines)
               + times_in(cp_lines[k][1], cp_errors.ambiguous_not_boss_lines) = 1
        /\ emitted_indices
               = SelectSeq(input_indices, LAMBDA index : in_seq(index, emitted_indices))

\* of two lines the first has one token and is a general error, the second
\* is emitted under its own index
C30_Witness ==
    /\ pc = "gate"
    /\ Len(cp_lines) = 2
    /\ cp_errors.general_lines = <<1>>
    /\ emitted_indices = <<2>>

(***************************************************************************)
(* Properties of sanitize_line                                             *)
(***************************************************************************)
\* C10: sanitize_line is idempotent: sanitizing an already sanitized line,
\* with the same boss alias list, gives the same line.
C10_Idempotent ==
    \A k \in 2..Len(sanitized) : sanitized[k] = sanitized[1]


(***************************************************************************)
(* Properties of get_points                                                *)
(***************************************************************************)
\* the scalar keys of the store with their points
scalar_keys == {k \in 1..Len(ps_points_map) : ps_points_map[k].value.type = "int"}

\* C11: for every scalar key of the points table, stored with or without a
\* leading "/", get_points resolves the bare spelling and the "/" spelling,
\* and gives both the points of the key
C11_SlashAgnostic ==
    \A k \in scalar_keys, i \in 1..Len(ps_calls) :
        ps_calls[i].boss \in {lstrip_slash(ps_points_map[k].key),
                              "/" \o lstrip_slash(ps_points_map[k].key)}
            => ps_calls[i].points = Some(ps_points_map[k].value.v)

\* the tiers the store holds for the legacy family, <<>> when it holds none
store_tiers ==
    IF family_entry(ps_points_map, "legacy") = None THEN <<>>
    ELSE family_entry(ps_points_map, "legacy").tiers

\* the tiers whose level the requested level reaches
tiers_reached(level) == {k \in 1..Len(store_tiers) : store_tiers[k].level <= level}

\* the calls made with the legacy token of that level and star
legacy_calls(level, star) ==
    {i \in 1..Len(ps_calls) :
        ps_calls[i].boss \in {legacy_token("", level, star), legacy_token("/", level, star)}}

\* C12: for a legacy token legacyL.S, get_points uses the tier of the greatest
\* level that is <= L among all the tiers, in whatever order points.json lists
\* them, and returns its 5-star or 6-star value according to S
C12_HighestTier ==
    \A level \in LegacyLevels, star \in {"5", "6"} :
        \A i \in legacy_calls(level, star), k \in tiers_reached(level) :
            (\A j \in tiers_reached(level) : store_tiers[j].level <= store_tiers[k].level)
                => ps_calls[i].points =
                       Some(IF star = "5" THEN store_tiers[k].point_5 ELSE store_tiers[k].point_6)

\* C17: get_points returns None for a legacy token whose level is below the
\* level of every tier of the store
C17_BelowEveryTierIsNone ==
    \A level \in LegacyLevels, star \in {"5", "6"} :
        \A i \in legacy_calls(level, star) :
            (store_tiers # <<>> /\ tiers_reached(level) = {}) => ps_calls[i].points = None

\* the points the modifier makes of a boss worth p
points_with(p, modifier) ==
    CASE modifier = "brucybonus" -> p + 5
      [] modifier \in {"double", "doublepoints"} -> 2 * p
      [] modifier = "fail" -> (p + 1) \div 2
      [] OTHER -> p

\* the token of the boss with the modifier in parentheses, the boss alone
\* for no modifier
with_modifier(boss, modifier) ==
    IF modifier = "" THEN boss ELSE boss \o "(" \o modifier \o ")"

\* C13: for a scalar boss worth p, get_points returns p + 5 with brucybonus,
\* 2 * p with double and with doublepoints, (p + 1) \div 2 with fail, and p
\* without a modifier
C13_ModifierArithmetic ==
    \A k \in scalar_keys, modifier \in {"", "brucybonus", "double", "doublepoints", "fail"} :
        \A i \in 1..Len(ps_calls) :
            ps_calls[i].boss \in {with_modifier(ps_points_map[k].key, modifier),
                                  with_modifier(lstrip_slash(ps_points_map[k].key), modifier)}
                => ps_calls[i].points = Some(points_with(ps_points_map[k].value.v, modifier))

\* a boss worth an odd number of points asked with fail, and a boss asked
\* with brucybonus
C13_Witness ==
    /\ Len(ps_calls) = 2
    /\ ps_calls[1] = [boss |-> "boss2(fail)", points |-> Some(3)]
    /\ ps_calls[2] = [boss |-> "boss1(brucybonus)", points |-> Some(15)]

(***************************************************************************)
(* Properties of slice_by_date                                             *)
(***************************************************************************)
\* the UTC instant of the date of a line of sl_lines
line_utc(line) == to_utc([t |-> get_date(line[2]).some, aware |-> FALSE], sl_zone)

\* start <= d < end for the date d of the line
in_slice_window(line) ==
    /\ to_utc(sl_window.start, sl_zone) <= line_utc(line)
    /\ line_utc(line) < to_utc(sl_window.end, sl_zone)

\* C15: for a chronologically ordered list of dated lines slice_by_date
\* returns exactly the lines whose date d satisfies start <= d < end, none
\* dated before start or at or after end, and the empty list when no line is
\* in the window
C15_SliceIsWindow ==
    IsSome(sl_sliced) => sl_sliced.some = SelectSeq(sl_lines, in_slice_window)

====
